---- MODULE Spec2Model ----
(***************************************************************************)
(* Model of the crawl-index-retrieve pipeline of src/app/api/chat/route.ts *)
(* (the module that starts at line 256 of the file).                       *)
(*                                                                         *)
(* Six specifications share the module:                                    *)
(*   Spec       the POST handler, the process-wide indexingStarted flag    *)
(*              and the life cycle of the ensurePagesIndexed run;          *)
(*   EmbedSpec  one call of embedText against a scripted embedding service;*)
(*   CrawlSpec  one call of crawlSiteRecursive over a finite web site      *)
(*              (CrawlFair adds the fairness the event loop gives);        *)
(*   ChunkSpec  two calls of chunkText with the same arguments;            *)
(*   IndexSpec  one run of ensurePagesIndexed, every await of              *)
(*              ensurePageIndexed and scrapePage a step of its own;        *)
(*   ToolSpec   one request and the calls of the retrieveDocument tool     *)
(*              made while its answer is generated.                        *)
(* Every action is one synchronous segment of the code: it starts where an *)
(* awaited promise settles and runs to the next await.                     *)
(***************************************************************************)
EXTENDS Integers, Sequences, FiniteSets, TLC

\* ------------------------------------------------------------------------
\* Bounds of the model
\* ------------------------------------------------------------------------
NumRequests == 2
MaxRows == 2
MaxFound == 2
MaxRetries == 5
MaxDepth == 3
MaxAnchors == 2
MaxRuns == 3
MaxToolCalls == 2
MaxProcesses == 2

Requests == 1..NumRequests

\* ------------------------------------------------------------------------
\* State
\* ------------------------------------------------------------------------
VARIABLES
  \* --- POST handler and indexing run ---
  indexingStarted,   \* route.ts:412
  pc,                \* per request: the await the handler is suspended at
  lastUserText,      \* per request: route.ts:471
  retrievedText,     \* per request: route.ts:483
  searchResult,      \* per request: how searchDocuments ended for its caller
  rpcReply,          \* per request: what the store answered to the rpc
  response,          \* per request: what POST handed back
  triggered,         \* per request: it took the branch of route.ts:478
  runsStarted,       \* number of calls of ensurePagesIndexed
  browsersLaunched,  \* number of calls of puppeteer.launch
  runState,          \* where the ensurePagesIndexed run is
  urls,              \* route.ts:391
  urlIdx,            \* position of the loop of route.ts:393
  runError,          \* an exception is travelling through the finally block
  browserOpen,       \* the browser of route.ts:389 is open
  browserCloses,     \* number of calls of browser.close
  console,           \* the kinds of console.error events emitted
  leads,             \* per request: what the insert into user_leads answered
  \* --- one call of embedText (route.ts:345-367) ---
  retries,           \* parameter
  delay0,            \* parameter delay as passed
  delay,             \* the local delay, doubled by route.ts:356
  i,                 \* loop counter of route.ts:346
  embPc,             \* where embedText is
  calls,             \* number of calls of embed() made
  waits,             \* the timeouts of route.ts:355, in order
  served,            \* what the service answered, in order
  embedResult,       \* how embedText ended
  \* --- one call of crawlSiteRecursive (route.ts:291-320) ---
  site,              \* the urls an a.href of the crawled site may have
  flaky,             \* an operation of the browser may fail, a navigation be redirected
  pageLinks,         \* per url page.evaluate resolved for: the set of links returned
  crawlDepth,        \* parameter depth of the outermost call
  crawlPc,           \* "start", "running", "returned" or "threw"
  stack,             \* the suspended activations, outermost first
  visited,           \* the Set shared by the activations (route.ts:291)
  loaded,            \* the urls handed to page.goto, in order
  openPages,         \* number of page contexts open
  crawlErrors,       \* the urls logged by route.ts:316
  revisits,          \* the urls route.ts:292 turned away as visited
  crawlSteps,        \* number of steps the crawl has taken
  crawlOut,          \* the list the outermost call returned
  \* --- chunkText (route.ts:281-288) ---
  pageText,          \* parameter text
  size,              \* parameter
  overlap,           \* parameter
  chunkI,            \* loop variable i of route.ts:283
  chunks,            \* route.ts:282
  chunkPc,           \* "start", "loop" or "returned"
  chunkCall,         \* 1 in the first call, 2 in the repeated one
  firstChunks,       \* what the first call returned
  \* --- ensurePageIndexed and scrapePage (route.ts:324-385) ---
  pagePc,            \* the await ensurePageIndexed is suspended at
  prior,             \* the rows of documents before the run, in order
  inserted,          \* the rows the run has persisted, in order
  reported,          \* the urls the count of route.ts:371 reported indexed
  attempted,         \* the urls ensurePageIndexed was called for, in order
  scraped,           \* the urls scrapePage was called for, in order
  embedded,          \* the urls with a chunk handed to embedText
  pageChunks,        \* route.ts:378
  chunkIdx,          \* position of the loop of route.ts:379 (from 0)
  pageOpens,         \* number of calls of browser.newPage by scrapePage
  pagesOpen,         \* number of page contexts of scrapePage open
  pageError,         \* an exception is travelling through route.ts:339
  indexedLog,        \* the urls of the "Indexed:" lines of route.ts:384, in order
  insertFailed,      \* <<url, chunk index>> of the inserts that came back with an error
  embedFailed,       \* <<url, chunk index>> of the chunks embedText rejected for
  \* --- the retrieveDocument tool (route.ts:570-577) ---
  toolPc,            \* per request: the await execute is suspended at
  toolQuery,         \* per request: the text execute handed to searchDocuments
  toolResults,       \* per request: how the calls of execute settled, in order
  \* --- the server process ---
  process            \* the number of the server process: 1 for the first

postVars == <<indexingStarted, pc, lastUserText, retrievedText, searchResult,
              rpcReply, response, triggered, runsStarted, browsersLaunched,
              runState, urls, urlIdx, runError, browserOpen, browserCloses,
              console, leads>>

embedVars == <<retries, delay0, delay, i, embPc, calls, waits, served, embedResult>>

crawlVars == <<site, flaky, pageLinks, crawlDepth, crawlPc, stack, visited, loaded, openPages, crawlErrors,
               revisits, crawlSteps, crawlOut>>

chunkVars == <<pageText, size, overlap, chunkI, chunks, chunkPc, chunkCall, firstChunks>>

pageVars == <<pagePc, prior, inserted, reported, attempted, scraped, embedded,
              pageChunks, chunkIdx, pageOpens, pagesOpen, pageError, indexedLog,
              insertFailed, embedFailed>>

toolVars == <<toolPc, toolQuery, toolResults>>

outsideRun == <<embedVars, crawlVars, chunkVars, toolVars, process>>
outsidePost == <<outsideRun, pageVars>>
outsideEmbed == <<postVars, crawlVars, chunkVars, pageVars, toolVars, process>>
outsideCrawl == <<postVars, embedVars, chunkVars, pageVars, toolVars, process>>
outsideChunk == <<postVars, embedVars, crawlVars, pageVars, toolVars, process>>
outsideTool == <<postVars, embedVars, crawlVars, chunkVars, pageVars, process>>

vars == <<postVars, embedVars, crawlVars, chunkVars, pageVars, toolVars, process>>

\* ------------------------------------------------------------------------
\* Retrieval: searchDocuments (route.ts:403-409)
\* ------------------------------------------------------------------------
\* The three ways embedText ends (route.ts:345-367).
EmbedOutcomes == {"vector", "maxRetries", "serviceError"}

RowTexts == {"Swarise builds software."}

RECURSIVE SeqsUpTo(_, _)
SeqsUpTo(S, n) ==
  IF n = 0 THEN {<<>>}
  ELSE LET shorter == SeqsUpTo(S, n - 1)
       IN shorter \cup {Append(s, x) : s \in {t \in shorter : Len(t) = n - 1}, x \in S}

\* What supabase.rpc('match_documents') resolves to: { data, error }.
\* isNull: data is null (then rows is empty).
RpcReplies ==
  {[error |-> e, isNull |-> TRUE, rows |-> <<>>] : e \in BOOLEAN}
    \cup {[error |-> FALSE, isNull |-> FALSE, rows |-> d] : d \in SeqsUpTo(RowTexts, MaxRows)}

NoReply == [error |-> FALSE, isNull |-> TRUE, rows |-> <<>>]

\* Array.prototype.join("\n\n")
RECURSIVE Join(_)
Join(texts) ==
  IF Len(texts) = 0 THEN ""
  ELSE IF Len(texts) = 1 THEN texts[1]
  ELSE texts[1] \o "\n\n" \o Join(Tail(texts))

NotCalled == [called |-> FALSE, threw |-> FALSE, error |-> "none", value |-> ""]

\* embedText rejected inside searchDocuments (route.ts:404): nothing catches
\* it there, searchDocuments rejects with the same error.
searchDocumentsEmbedFailed(outcome) ==
  [called |-> TRUE, threw |-> TRUE, error |-> outcome, value |-> ""]

\* A mutation of searchDocumentsAfterRpc: the test of `error` is dropped.
searchDocumentsIgnoresError(reply) ==
  [called |-> TRUE, threw |-> FALSE, error |-> "none",
   value |-> Join(IF reply.isNull THEN <<>> ELSE reply.rows)]

\* route.ts:405-408, from the point where the rpc has resolved.
searchDocumentsAfterRpc(reply) ==
  IF reply.error
    THEN [called |-> TRUE, threw |-> TRUE, error |-> "storeError", value |-> ""]
    ELSE [called |-> TRUE, threw |-> FALSE, error |-> "none",
          value |-> Join(IF reply.isNull THEN <<>> ELSE reply.rows)]

\* route.ts:483-487: try { retrievedText = await searchDocuments(..) } catch
CaughtRetrieval(res) == IF res.threw THEN "" ELSE res.value

\* route.ts:489, 562-613: the prompt is chosen on the truthiness of
\* retrievedText, streamText is started and its response returned.
Respond(text) == IF text = "" THEN "stream:noContext" ELSE "stream:withContext"

\* ------------------------------------------------------------------------
\* The indexing run: ensurePagesIndexed (route.ts:388-400)
\* ------------------------------------------------------------------------
Seed == "https://swarise.com/"
FoundOrder == <<Seed, "https://swarise.com/about", "https://swarise.com/contact",
               "https://swarise.com/services">>

\* The lists crawlSiteRecursive may hand to the loop of route.ts:393.
CrawlOutputs == {SubSeq(FoundOrder, 1, n) : n \in 0..MaxFound}

RunStates == {"NotStarted", "Launching", "Crawling", "Indexing", "Closing",
              "Completed", "Failed"}
Running == {"Launching", "Crawling", "Indexing", "Closing"}

\* A mutation of IndexOnlyOnce: the flag is not set before the run is
\* started (it would be set once the run has got going).
IndexWithoutSettingFlag(r) ==
  /\ triggered' = [triggered EXCEPT ![r] = ~indexingStarted]
  /\ IF ~indexingStarted
       THEN /\ indexingStarted' = indexingStarted
            /\ runsStarted' = runsStarted + 1
            /\ browsersLaunched' = browsersLaunched + 1
            /\ runState' = "Launching"
       ELSE UNCHANGED <<indexingStarted, runsStarted, browsersLaunched, runState>>

\* route.ts:477-481.  The test, the assignment and the call are one
\* synchronous segment; ensurePagesIndexed runs synchronously up to its first
\* await, which is puppeteer.launch (route.ts:389).
IndexOnlyOnce(r) ==
  /\ triggered' = [triggered EXCEPT ![r] = ~indexingStarted]
  /\ IF ~indexingStarted
       THEN /\ indexingStarted' = TRUE
            /\ runsStarted' = runsStarted + 1
            /\ browsersLaunched' = browsersLaunched + 1
            /\ runState' = "Launching"
       ELSE UNCHANGED <<indexingStarted, runsStarted, browsersLaunched, runState>>

runVars == <<urls, urlIdx, runError, browserOpen, browserCloses, outsidePost>>
guardVars == <<indexingStarted, triggered, runsStarted, browsersLaunched, runState>>

\* ------------------------------------------------------------------------
\* POST (route.ts:415-613)
\* ------------------------------------------------------------------------
UserTexts == {"", "what is swarise"}

\* route.ts:415-416: the handler is entered and awaits req.json().
PostArrive(r) ==
  /\ pc[r] = "idle"
  /\ pc' = [pc EXCEPT ![r] = "json"]
  /\ UNCHANGED <<lastUserText, retrievedText, searchResult, rpcReply, response,
                 console, guardVars, runVars, leads>>

\* route.ts:416: req.json() rejects (the body is no JSON); POST rejects.
PostBadBody(r) ==
  /\ pc[r] = "json"
  /\ pc' = [pc EXCEPT ![r] = "done"]
  /\ response' = [response EXCEPT ![r] = "rejected"]
  /\ UNCHANGED <<lastUserText, retrievedText, searchResult, rpcReply, console,
                 guardVars, runVars, leads>>

\* A mutation of PostLeadForm: the form is looked at after the guard of
\* route.ts:477-481, so a request with a form may start the indexing run.
PostLeadFormIndexes(r) ==
  /\ pc[r] = "json"
  /\ pc' = [pc EXCEPT ![r] = "lead"]
  /\ IndexOnlyOnce(r)
  /\ UNCHANGED <<lastUserText, retrievedText, searchResult, rpcReply, response,
                 console, runVars, leads>>

\* route.ts:442-455: the last user message carries a form; the lead insert
\* is issued and awaited.
PostLeadForm(r) ==
  /\ pc[r] = "json"
  /\ pc' = [pc EXCEPT ![r] = "lead"]
  /\ UNCHANGED <<lastUserText, retrievedText, searchResult, rpcReply, response,
                 console, guardVars, runVars, leads>>

\* route.ts:457-462
LeadResponse(error) == IF error THEN "500" ELSE "200"

\* route.ts:444-462: the insert into user_leads has settled.
PostLeadSaved(r) ==
  /\ pc[r] = "lead"
  /\ \E error \in BOOLEAN :
       /\ leads' = [leads EXCEPT ![r] = IF error THEN "error" ELSE "saved"]
       /\ response' = [response EXCEPT ![r] = LeadResponse(error)]
       /\ console' = IF error THEN console \cup {"Supabase insert error"} ELSE console
  /\ pc' = [pc EXCEPT ![r] = "done"]
  /\ UNCHANGED <<lastUserText, retrievedText, searchResult, rpcReply, guardVars,
                 runVars>>

\* route.ts:471-487 (no form): the guard, then searchDocuments is entered
\* and awaits embedText (route.ts:404), or, with an empty text, the handler
\* runs on to its return (route.ts:489-613).
PostQuery(r) ==
  /\ pc[r] = "json"
  /\ \E text \in UserTexts :
       /\ lastUserText' = [lastUserText EXCEPT ![r] = text]
       /\ IndexOnlyOnce(r)
       /\ IF text # ""
            THEN /\ pc' = [pc EXCEPT ![r] = "embed"]
                 /\ UNCHANGED response
            ELSE /\ pc' = [pc EXCEPT ![r] = "done"]
                 /\ response' = [response EXCEPT ![r] = Respond("")]
  /\ UNCHANGED <<retrievedText, searchResult, rpcReply, console, runVars, leads>>

\* route.ts:404: embedText has settled.  With a vector the rpc is issued and
\* awaited (route.ts:405); a rejection leaves searchDocuments and reaches the
\* catch of route.ts:486, and the handler runs on to its return.
PostEmbedded(r) ==
  /\ pc[r] = "embed"
  /\ \E outcome \in EmbedOutcomes :
       IF outcome = "vector"
         THEN /\ pc' = [pc EXCEPT ![r] = "rpc"]
              /\ UNCHANGED <<retrievedText, searchResult, response, console>>
         ELSE LET res == searchDocumentsEmbedFailed(outcome)
                  text == CaughtRetrieval(res)
              IN /\ searchResult' = [searchResult EXCEPT ![r] = res]
                 /\ retrievedText' = [retrievedText EXCEPT ![r] = text]
                 /\ console' = console \cup {"Vector search error"}
                 /\ response' = [response EXCEPT ![r] = Respond(text)]
                 /\ pc' = [pc EXCEPT ![r] = "done"]
  /\ UNCHANGED <<lastUserText, rpcReply, guardVars, runVars, leads>>

\* route.ts:405-408 and 485-613: the rpc has resolved; searchDocuments
\* returns or throws, the handler catches and runs on to its return.
PostRpc(r) ==
  /\ pc[r] = "rpc"
  /\ \E reply \in RpcReplies :
       LET res == searchDocumentsAfterRpc(reply)
           text == CaughtRetrieval(res)
       IN /\ rpcReply' = [rpcReply EXCEPT ![r] = reply]
          /\ searchResult' = [searchResult EXCEPT ![r] = res]
          /\ retrievedText' = [retrievedText EXCEPT ![r] = text]
          /\ console' = IF res.threw THEN console \cup {"Vector search error"}
                        ELSE console
          /\ response' = [response EXCEPT ![r] = Respond(text)]
          /\ pc' = [pc EXCEPT ![r] = "done"]
  /\ UNCHANGED <<lastUserText, guardVars, runVars, leads>>

\* ------------------------------------------------------------------------
\* The retrieveDocument tool (route.ts:570-577)
\* ------------------------------------------------------------------------
\* The query the model may hand to the tool.
ToolQueries == {"", "swarise services"}

\* route.ts:574: query || lastUserText
EffectiveQuery(query, lastText) == IF query = "" THEN lastText ELSE query

NoDocuments == "No relevant documents found."

\* route.ts:573-576: how execute settles once searchDocuments has.  Nothing
\* in execute catches: what searchDocuments throws rejects execute.
ExecuteSettles(res) ==
  IF res.threw
    THEN [rejected |-> TRUE, text |-> ""]
    ELSE [rejected |-> FALSE,
          text |-> IF res.value = "" THEN NoDocuments ELSE res.value]

\* route.ts:573-574: the generation calls the tool; execute enters
\* searchDocuments, which awaits embedText (route.ts:404).
ToolCalled(r) ==
  /\ response[r] \in {"stream:noContext", "stream:withContext"}
  /\ toolPc[r] = "none"
  /\ Len(toolResults[r]) < MaxToolCalls
  /\ \E query \in ToolQueries :
       toolQuery' = [toolQuery EXCEPT ![r] = EffectiveQuery(query, lastUserText[r])]
  /\ toolPc' = [toolPc EXCEPT ![r] = "embed"]
  /\ UNCHANGED <<toolResults, outsideTool>>

\* route.ts:404: embedText has settled inside the tool's searchDocuments.
ToolEmbedded(r) ==
  /\ toolPc[r] = "embed"
  /\ \E outcome \in EmbedOutcomes :
       IF outcome = "vector"
         THEN /\ toolPc' = [toolPc EXCEPT ![r] = "rpc"]
              /\ UNCHANGED toolResults
         ELSE /\ toolPc' = [toolPc EXCEPT ![r] = "none"]
              /\ toolResults' =
                   [toolResults EXCEPT ![r] =
                      Append(@, ExecuteSettles(searchDocumentsEmbedFailed(outcome)))]
  /\ UNCHANGED <<toolQuery, outsideTool>>

\* route.ts:405-408, 574-575: the rpc has resolved inside the tool's
\* searchDocuments; execute returns its text or rejects.
ToolRpc(r) ==
  /\ toolPc[r] = "rpc"
  /\ \E reply \in RpcReplies :
       toolResults' =
         [toolResults EXCEPT ![r] = Append(@, ExecuteSettles(searchDocumentsAfterRpc(reply)))]
  /\ toolPc' = [toolPc EXCEPT ![r] = "none"]
  /\ UNCHANGED <<toolQuery, outsideTool>>

\* No call of the tool has been made.
ToolIdle ==
  /\ toolPc = [r \in Requests |-> "none"]
  /\ toolQuery = [r \in Requests |-> ""]
  /\ toolResults = [r \in Requests |-> <<>>]

\* ------------------------------------------------------------------------
\* Steps of the run (route.ts:388-400) and the handler of its rejection
\* ------------------------------------------------------------------------
\* A mutation of CatchConsoleError: no handler is attached to the promise, so
\* the rejection is unhandled and the process ends with every request in
\* flight.
UnhandledRejection ==
  /\ console' = console \cup {"unhandledRejection"}
  /\ pc' = [r \in Requests |-> IF pc[r] = "idle" THEN "idle" ELSE "done"]
  /\ response' = [r \in Requests |->
                    IF pc[r] \in {"idle", "done"} THEN response[r] ELSE "rejected"]

\* route.ts:480: ensurePagesIndexed(..).catch(console.error).  The promise
\* of the run is not awaited by the handler; its rejection is logged.
CatchConsoleError ==
  /\ console' = console \cup {"run rejected"}
  /\ UNCHANGED <<pc, response>>

reqVars == <<lastUserText, retrievedText, searchResult, rpcReply, leads, outsidePost>>
flagVars == <<indexingStarted, triggered, runsStarted, browsersLaunched>>

\* route.ts:389: puppeteer.launch has settled.  It is outside the try: a
\* failure rejects the run with no browser to close.
RunLaunched ==
  /\ runState = "Launching"
  /\ \E ok \in BOOLEAN :
       IF ok
         THEN /\ runState' = "Crawling"
              /\ browserOpen' = TRUE
              /\ UNCHANGED <<pc, response, console>>
         ELSE /\ runState' = "Failed"
              /\ UNCHANGED browserOpen
              /\ CatchConsoleError
  /\ UNCHANGED <<reqVars, flagVars, urls, urlIdx, runError, browserCloses>>

\* route.ts:391-392: crawlSiteRecursive has settled, with a list or with an
\* exception that goes to the finally block.
RunCrawled ==
  /\ runState = "Crawling"
  /\ \/ \E found \in CrawlOutputs :
          /\ urls' = found
          /\ urlIdx' = 1
          /\ runState' = "Indexing"
          /\ UNCHANGED runError
     \/ /\ runError' = TRUE
        /\ runState' = "Closing"
        /\ UNCHANGED <<urls, urlIdx>>
  /\ UNCHANGED <<reqVars, flagVars, pc, response, console, browserOpen, browserCloses>>

\* route.ts:393-395: ensurePageIndexed has settled for urls[urlIdx]; a
\* rejection is caught and logged, the loop goes on.
RunPageIndexed ==
  /\ runState = "Indexing"
  /\ urlIdx <= Len(urls)
  /\ \E ok \in BOOLEAN :
       console' = IF ok THEN console ELSE console \cup {"Error indexing"}
  /\ urlIdx' = urlIdx + 1
  /\ UNCHANGED <<reqVars, flagVars, pc, response, runState, urls, runError,
                 browserOpen, browserCloses>>

\* A mutation of RunLoopDone: the run has no finally block, it resolves
\* when the loop is over.
RunLoopDoneNoClose ==
  /\ runState = "Indexing"
  /\ urlIdx > Len(urls)
  /\ runState' = "Completed"
  /\ UNCHANGED <<reqVars, flagVars, pc, response, console, urls, urlIdx, runError,
                 browserOpen, browserCloses>>

\* route.ts:396-398: the loop is over, the finally block calls browser.close.
RunLoopDone ==
  /\ runState = "Indexing"
  /\ urlIdx > Len(urls)
  /\ runState' = "Closing"
  /\ UNCHANGED <<reqVars, flagVars, pc, response, console, urls, urlIdx, runError,
                 browserOpen, browserCloses>>

\* A mutation of RunClosed: the end of the run clears the flag, so that the
\* next request indexes again.
RunClosedResetsFlag ==
  /\ runState = "Closing"
  /\ browserCloses' = browserCloses + 1
  /\ indexingStarted' = FALSE
  /\ \E ok \in BOOLEAN :
       /\ browserOpen' = ~ok
       /\ IF ok /\ ~runError
            THEN /\ runState' = "Completed"
                 /\ UNCHANGED <<pc, response, console>>
            ELSE /\ runState' = "Failed"
                 /\ CatchConsoleError
  /\ UNCHANGED <<reqVars, triggered, runsStarted, browsersLaunched, urls, urlIdx,
                 runError>>

\* route.ts:398-399: browser.close has settled.  The run's promise resolves,
\* or rejects with the crawl's exception or with that of close.
RunClosed ==
  /\ runState = "Closing"
  /\ browserCloses' = browserCloses + 1
  /\ \E ok \in BOOLEAN :
       /\ browserOpen' = ~ok
       /\ IF ok /\ ~runError
            THEN /\ runState' = "Completed"
                 /\ UNCHANGED <<pc, response, console>>
            ELSE /\ runState' = "Failed"
                 /\ CatchConsoleError
  /\ UNCHANGED <<reqVars, flagVars, urls, urlIdx, runError>>

\* ------------------------------------------------------------------------
\* embedText (route.ts:345-367)
\* ------------------------------------------------------------------------
DefaultRetries == 5
DefaultDelay == 2000

\* String.prototype.includes
Includes(s, sub) ==
  \E k \in 1..(Len(s) - Len(sub) + 1) : SubSeq(s, k, k + Len(sub) - 1) = sub

\* Values the embed() call of the SDK may reject with.  isObject: typeof err
\* is "object" and err is not null; hasStatusCode: "statusCode" in err;
\* hasMessage: err.message is a string.
Thrown(isObject, hasStatusCode, statusCode, hasMessage, message) ==
  [isObject |-> isObject, hasStatusCode |-> hasStatusCode, statusCode |-> statusCode,
   hasMessage |-> hasMessage, message |-> message]

TooManyRequests == Thrown(TRUE, TRUE, 429, TRUE, "Too Many Requests")
QuotaWithStatus == Thrown(TRUE, TRUE, 400, TRUE, "Resource has been exhausted (e.g. check quota).")
QuotaNoStatus == Thrown(TRUE, FALSE, 0, TRUE, "Resource has been exhausted (e.g. check quota).")
ServerError == Thrown(TRUE, TRUE, 500, TRUE, "Internal error")
StatusNoMessage == Thrown(TRUE, TRUE, 503, FALSE, "")
NetworkError == Thrown(TRUE, FALSE, 0, TRUE, "fetch failed")
ThrownString == Thrown(FALSE, FALSE, 0, FALSE, "")

ServiceErrors == {TooManyRequests, QuotaWithStatus, QuotaNoStatus, ServerError,
                  StatusNoMessage, NetworkError, ThrownString}

\* route.ts:366
MaxRetriesError == Thrown(TRUE, FALSE, 0, TRUE, "Max retries reached for embedding")

Vectors == {"v1", "v2"}
NoError == Thrown(FALSE, FALSE, 0, FALSE, "")

ServiceReplies ==
  {[ok |-> TRUE, vector |-> v, err |-> NoError] : v \in Vectors}
    \cup {[ok |-> FALSE, vector |-> "none", err |-> e] : e \in ServiceErrors}

\* A mutation of IsRateLimit: every failure of the service is retried.
RetryAnyFailure(err) == TRUE

\* route.ts:351-353: the error is retried when it is an object that has a
\* statusCode property and its status is 429 or its message contains
\* "exhausted".
IsRateLimit(err) ==
  /\ err.isObject
  /\ err.hasStatusCode
  /\ \/ err.statusCode = 429
     \/ err.hasMessage /\ Includes(err.message, "exhausted")

\* A mutation of NextDelay: the delay is not doubled.
SameDelay(d) == d

\* route.ts:356
NextDelay(d) == d * 2

\* A mutation of LoopContinues: the bound of the loop is off by one.
LoopContinuesInclusive(n, bound) == n <= bound

\* route.ts:346: the test of the for loop
LoopContinues(n, bound) == n < bound

Pending == [kind |-> "pending", vector |-> "none", err |-> NoError]

\* route.ts:346-348 and 366: the test of the loop with counter n; embed()
\* is called and awaited, or the loop is left and embedText throws.
EmbedLoop(n) ==
  IF LoopContinues(n, retries)
    THEN /\ embPc' = "call"
         /\ calls' = calls + 1
         /\ UNCHANGED embedResult
    ELSE /\ embPc' = "threw"
         /\ embedResult' = [kind |-> "error", vector |-> "none", err |-> MaxRetriesError]
         /\ UNCHANGED calls

\* route.ts:345-348: embedText is entered.
EmbedEnter ==
  /\ embPc = "start"
  /\ EmbedLoop(i)
  /\ UNCHANGED <<retries, delay0, delay, i, waits, served, outsideEmbed>>

\* route.ts:348-363: embed() has settled.  A vector is returned; a rate
\* limit starts the timeout of route.ts:355; any other error is rethrown.
EmbedSettled ==
  /\ embPc = "call"
  /\ \E reply \in ServiceReplies :
       /\ served' = Append(served, reply)
       /\ IF reply.ok
            THEN /\ embPc' = "returned"
                 /\ embedResult' = [kind |-> "vector", vector |-> reply.vector, err |-> NoError]
                 /\ UNCHANGED waits
            ELSE IF IsRateLimit(reply.err)
              THEN /\ embPc' = "wait"
                   /\ waits' = Append(waits, delay)
                   /\ UNCHANGED embedResult
              ELSE /\ embPc' = "threw"
                   /\ embedResult' = [kind |-> "error", vector |-> "none", err |-> reply.err]
                   /\ UNCHANGED waits
  /\ UNCHANGED <<retries, delay0, delay, i, calls, outsideEmbed>>

\* route.ts:355-356, 346: the timeout has fired; the delay is doubled, the
\* counter incremented and the loop tested again.
EmbedTimer ==
  /\ embPc = "wait"
  /\ delay' = NextDelay(delay)
  /\ i' = i + 1
  /\ EmbedLoop(i + 1)
  /\ UNCHANGED <<retries, delay0, waits, served, outsideEmbed>>

\* embedText(value, retries, delay): the arguments of one call.
EmbedArgs ==
  /\ retries \in 0..MaxRetries
  /\ delay0 \in {1, DefaultDelay}
  /\ delay = delay0
  /\ i = 0
  /\ embPc = "start"
  /\ calls = 0
  /\ waits = <<>>
  /\ served = <<>>
  /\ embedResult = Pending

\* No call of embedText is followed.
EmbedIdle ==
  /\ retries = DefaultRetries
  /\ delay0 = DefaultDelay
  /\ delay = DefaultDelay
  /\ i = 0
  /\ embPc = "idle"
  /\ calls = 0
  /\ waits = <<>>
  /\ served = <<>>
  /\ embedResult = Pending

\* ------------------------------------------------------------------------
\* crawlSiteRecursive (route.ts:291-320)
\* ------------------------------------------------------------------------
DefaultDepth == 2

AboutPage == "https://swarise.com/about"
PrefixSite == "https://swarise.com.evil.example/x"
OtherSite == "https://other.example/x"

\* The values an a.href may have on the pages of the model.
Urls == {Seed, AboutPage, PrefixSite, OtherSite}

\* String.prototype.startsWith
StartsWith(s, prefix) ==
  Len(s) >= Len(prefix) /\ SubSeq(s, 1, Len(prefix)) = prefix

\* The origin of an absolute url: scheme, "://" and authority, that is all
\* that precedes the first "/" after the "://".
Origin(u) ==
  LET sep == CHOOSE k \in 1..Len(u) :
               /\ SubSeq(u, k, k + 2) = "://"
               /\ \A j \in 1..(k - 1) : SubSeq(u, j, j + 2) # "://"
      slashes == {k \in (sep + 3)..Len(u) : SubSeq(u, k, k) = "/"}
      stop == IF slashes = {} THEN Len(u) + 1
              ELSE CHOOSE k \in slashes : \A j \in slashes : k <= j
  IN SubSeq(u, 1, stop - 1)

\* The pages of a site all of one origin.
SiteUrls == {FoundOrder[k] : k \in 1..Len(FoundOrder)}

OriginOf == [u \in Urls \cup SiteUrls |-> Origin(u)]

\* window.location.origin of the page that page.goto(u) ends on: the origin
\* of u, or that of another site when the navigation is redirected.
Locations(u) == {OriginOf[u]} \cup (IF flaky THEN {OriginOf[OtherSite]} ELSE {})

\* How an awaited operation of the browser may settle: resolved (TRUE) or
\* rejected (FALSE).
Settles == IF flaky THEN BOOLEAN ELSE {TRUE}

\* The anchors of a page, in document order; an href may occur twice.
AnchorLists == SeqsUpTo(site, MaxAnchors)

\* Array.from(new Set(list)): the first occurrence of each value is kept.
RECURSIVE Dedup(_)
Dedup(list) ==
  IF list = <<>> THEN <<>>
  ELSE LET front == Dedup(SubSeq(list, 1, Len(list) - 1))
           last == list[Len(list)]
       IN IF \E k \in 1..Len(front) : front[k] = last THEN front
          ELSE Append(front, last)

\* route.ts:300-306: what page.evaluate returns on a page at location loc
\* with the given anchors.
ExtractLinks(loc, anchors) ==
  Dedup(SelectSeq(anchors, LAMBDA href : StartsWith(href, loc)))

\* A mutation of ReturnsAtOnce: the visited set is not consulted.
ReturnsAtOnceDepthOnly(url, depth, vis) == depth <= 0

\* route.ts:292
ReturnsAtOnce(url, depth, vis) == depth <= 0 \/ url \in vis

\* A mutation of InitialLinks: the page's own url is left out of its result.
InitialLinksEmpty(url) == <<>>

\* route.ts:310
InitialLinks(url) == <<url>>

\* A mutation of ChildDepth: the depth is handed on as it is.
ChildDepthSame(depth) == depth

\* route.ts:312: the depth handed to the call for a link.
ChildDepth(depth) == depth - 1

\* A mutation of CaughtResult: the url of the failed page is returned.
CaughtResultKeepsUrl(url) == <<url>>

\* route.ts:318: what the catch block returns.
CaughtResult(url) == <<>>

\* One activation of crawlSiteRecursive.  page: the variable of route.ts:295
\* is assigned; open: its page context is open; cause: the await whose
\* rejection took the activation into its catch block.
NewFrame(url, depth) ==
  [url |-> url, depth |-> depth, pc |-> "newPage", page |-> FALSE, open |-> FALSE,
   links |-> <<>>, newLinks |-> <<>>, cause |-> "none"]

Top(st) == st[Len(st)]
Pop(st) == SubSeq(st, 1, Len(st) - 1)
SetTop(st, f) == [st EXCEPT ![Len(st)] = f]

\* The memory of a crawl while it runs.
Memory == [stack |-> stack, visited |-> visited, errors |-> crawlErrors,
           revisits |-> revisits]

Suspended(m) == m @@ [done |-> "running", out |-> <<>>]

\* The synchronous run of the code from one await to the next.  Call: an
\* activation is entered (route.ts:292-297); Return: an activation returns
\* `value` to the await of route.ts:312 or to the outermost caller; RunLoop:
\* the loop of route.ts:311-314 of the topmost activation.
RECURSIVE Call(_, _, _), Return(_, _), RunLoop(_)

Call(m, url, depth) ==
  IF ReturnsAtOnce(url, depth, m.visited)
    THEN Return([m EXCEPT !.revisits = IF depth > 0 THEN @ \cup {url} ELSE @], <<>>)
    ELSE Suspended([m EXCEPT !.stack = Append(@, NewFrame(url, depth)),
                             !.visited = @ \cup {url}])

Return(m, value) ==
  IF m.stack = <<>>
    THEN m @@ [done |-> "returned", out |-> value]
    ELSE RunLoop([m EXCEPT !.stack = SetTop(@, [Top(@) EXCEPT !.newLinks = @ \o value])])

RunLoop(m) ==
  LET f == Top(m.stack) IN
    IF f.links = <<>>
      THEN Return([m EXCEPT !.stack = Pop(@)], f.newLinks)
      ELSE Call([m EXCEPT !.stack = SetTop(@, [f EXCEPT !.links = Tail(@),
                                                       !.pc = "awaitChild"])],
                Head(f.links), ChildDepth(f.depth))

\* route.ts:315-317: the catch block of the topmost activation of m, whose
\* page is assigned, up to the await of page.close.
Catch(m, cause) ==
  Suspended([m EXCEPT !.stack = SetTop(@, [Top(@) EXCEPT !.pc = "catchClose",
                                                         !.cause = cause]),
                      !.errors = @ \cup {Top(m.stack).url}])

\* An exception leaves an activation: it reaches the outermost caller, or
\* the catch block of the activation that awaits it at route.ts:312.
Throw(m) ==
  IF m.stack = <<>>
    THEN m @@ [done |-> "threw", out |-> <<>>]
    ELSE Catch(m, "child")

Resume(cs) ==
  /\ stack' = cs.stack
  /\ visited' = cs.visited
  /\ crawlErrors' = cs.errors
  /\ revisits' = cs.revisits
  /\ crawlSteps' = crawlSteps + 1
  /\ crawlPc' = cs.done
  /\ crawlOut' = cs.out

\* route.ts:291-297: the outermost call, with a fresh Set.
CrawlEnter ==
  /\ crawlPc = "start"
  /\ Resume(Call(Memory, Seed, crawlDepth))
  /\ UNCHANGED <<site, flaky, pageLinks, crawlDepth, loaded, openPages, outsideCrawl>>

\* route.ts:297-298: browser.newPage has settled.  On failure the catch
\* block finds no page and returns the empty list (route.ts:315-318).
NewPageSettled ==
  /\ crawlPc = "running"
  /\ Top(stack).pc = "newPage"
  /\ \E ok \in Settles :
       IF ok
         THEN /\ Resume(Suspended(
                   [Memory EXCEPT !.stack = SetTop(@, [Top(@) EXCEPT !.pc = "goto",
                                                                     !.page = TRUE,
                                                                     !.open = TRUE])]))
              /\ openPages' = openPages + 1
         ELSE /\ Resume(Return([Memory EXCEPT !.stack = Pop(@),
                                              !.errors = @ \cup {Top(stack).url}],
                               CaughtResult(Top(stack).url)))
              /\ UNCHANGED openPages
  /\ UNCHANGED <<site, flaky, pageLinks, crawlDepth, loaded, outsideCrawl>>

\* route.ts:298-300: page.goto has settled.
GotoSettled ==
  /\ crawlPc = "running"
  /\ Top(stack).pc = "goto"
  /\ loaded' = Append(loaded, Top(stack).url)
  /\ \E ok \in Settles :
       IF ok
         THEN Resume(Suspended(
                [Memory EXCEPT !.stack = SetTop(@, [Top(@) EXCEPT !.pc = "evaluate"])]))
         ELSE Resume(Catch(Memory, "goto"))
  /\ UNCHANGED <<site, flaky, pageLinks, crawlDepth, openPages, outsideCrawl>>

\* route.ts:300-308: page.evaluate has settled, with the links of the page
\* or with an error.
EvaluateSettled ==
  /\ crawlPc = "running"
  /\ Top(stack).pc = "evaluate"
  /\ \/ \E loc \in Locations(Top(stack).url), anchors \in AnchorLists :
          /\ Resume(Suspended(
               [Memory EXCEPT !.stack = SetTop(@, [Top(@) EXCEPT
                                                     !.pc = "close",
                                                     !.links = ExtractLinks(loc, anchors)])]))
          /\ LET links == ExtractLinks(loc, anchors)
             IN pageLinks' = (Top(stack).url :> {links[k] : k \in 1..Len(links)})
                               @@ pageLinks
     \/ /\ flaky
        /\ Resume(Catch(Memory, "evaluate"))
        /\ UNCHANGED pageLinks
  /\ UNCHANGED <<site, flaky, crawlDepth, loaded, openPages, outsideCrawl>>

\* route.ts:308-314: the page.close of the try block has settled; the loop
\* over the links runs up to the next activation that awaits a page.
CloseSettled ==
  /\ crawlPc = "running"
  /\ Top(stack).pc = "close"
  /\ \E ok \in Settles :
       IF ok
         THEN /\ Resume(RunLoop(
                   [Memory EXCEPT !.stack = SetTop(@, [Top(@) EXCEPT
                                      !.open = FALSE,
                                      !.newLinks = InitialLinks(Top(stack).url)])]))
              /\ openPages' = openPages - 1
         ELSE /\ Resume(Catch(Memory, "close"))
              /\ UNCHANGED openPages
  /\ UNCHANGED <<site, flaky, pageLinks, crawlDepth, loaded, outsideCrawl>>

\* route.ts:317-318: the page.close of the catch block has settled; the
\* activation returns the empty list, or the error of close leaves it.
CatchCloseSettled ==
  /\ crawlPc = "running"
  /\ Top(stack).pc = "catchClose"
  /\ \E ok \in Settles :
       IF ok
         THEN /\ Resume(Return([Memory EXCEPT !.stack = Pop(@)],
                                CaughtResult(Top(stack).url)))
              /\ openPages' = IF Top(stack).open THEN openPages - 1 ELSE openPages
         ELSE /\ Resume(Throw([Memory EXCEPT !.stack = Pop(@)]))
              /\ UNCHANGED openPages
  /\ UNCHANGED <<site, flaky, pageLinks, crawlDepth, loaded, outsideCrawl>>

\* crawlSiteRecursive(browser, Seed, depth): the arguments of one call.
CrawlArgs ==
  /\ site = Urls
  /\ flaky = TRUE
  /\ pageLinks = <<>>
  /\ crawlDepth \in 0..MaxDepth
  /\ crawlPc = "start"
  /\ stack = <<>>
  /\ visited = {}
  /\ loaded = <<>>
  /\ openPages = 0
  /\ crawlErrors = {}
  /\ revisits = {}
  /\ crawlSteps = 0
  /\ crawlOut = <<>>

\* crawlSiteRecursive(browser, Seed, depth) on a site whose links all stay
\* on the origin of the seed and whose pages all load.
SiteArgs ==
  /\ site = SiteUrls
  /\ flaky = FALSE
  /\ pageLinks = <<>>
  /\ crawlDepth \in 0..MaxDepth
  /\ crawlPc = "start"
  /\ stack = <<>>
  /\ visited = {}
  /\ loaded = <<>>
  /\ openPages = 0
  /\ crawlErrors = {}
  /\ revisits = {}
  /\ crawlSteps = 0
  /\ crawlOut = <<>>

\* No call of crawlSiteRecursive is followed.
CrawlIdle ==
  /\ site = {}
  /\ flaky = FALSE
  /\ pageLinks = <<>>
  /\ crawlDepth = DefaultDepth
  /\ crawlPc = "idle"
  /\ stack = <<>>
  /\ visited = {}
  /\ loaded = <<>>
  /\ openPages = 0
  /\ crawlErrors = {}
  /\ revisits = {}
  /\ crawlSteps = 0
  /\ crawlOut = <<>>

\* ------------------------------------------------------------------------
\* chunkText (route.ts:281-288)
\* ------------------------------------------------------------------------
DefaultSize == 800
DefaultOverlap == 200
MinChunk == 50

\* The characters String.prototype.trim removes that occur in the texts.
WhiteSpace == {" ", "\n", "\t"}

\* String.prototype.slice(from, to) for 0 <= from <= to, positions from 0.
Slice(s, from, to) ==
  SubSeq(s, from + 1, IF to < Len(s) THEN to ELSE Len(s))

\* String.prototype.trim
Trim(s) ==
  LET Inked(k) == SubSeq(s, k, k) \notin WhiteSpace
  IN IF \A k \in 1..Len(s) : ~Inked(k) THEN ""
     ELSE SubSeq(s,
            CHOOSE k \in 1..Len(s) : Inked(k) /\ \A j \in 1..(k - 1) : ~Inked(j),
            CHOOSE k \in 1..Len(s) : Inked(k) /\ \A j \in (k + 1)..Len(s) : ~Inked(j))

\* route.ts:284
Piece(s, at, sz) == Trim(Slice(s, at, at + sz))

\* A mutation of Keeps: every piece that is not empty is kept.
KeepsNonEmpty(piece) == Len(piece) > 0

\* route.ts:285
Keeps(piece) == Len(piece) > MinChunk

\* A mutation of Advance: the windows do not overlap.
AdvanceBySize(at, sz, ov) == at + sz

\* route.ts:283, the increment of the loop
Advance(at, sz, ov) == at + sz - ov

\* route.ts:282: the call is entered.
ChunkEnter ==
  /\ chunkPc = "start"
  /\ chunks' = <<>>
  /\ chunkI' = 0
  /\ chunkPc' = "loop"
  /\ UNCHANGED <<pageText, size, overlap, chunkCall, firstChunks, outsideChunk>>

\* route.ts:283-286: one turn of the loop.
ChunkIterate ==
  /\ chunkPc = "loop"
  /\ chunkI < Len(pageText)
  /\ LET piece == Piece(pageText, chunkI, size)
     IN chunks' = IF Keeps(piece) THEN Append(chunks, piece) ELSE chunks
  /\ chunkI' = Advance(chunkI, size, overlap)
  /\ UNCHANGED <<pageText, size, overlap, chunkPc, chunkCall, firstChunks, outsideChunk>>

\* route.ts:283, 287: the loop ends and the call returns chunks.
ChunkReturn ==
  /\ chunkPc = "loop"
  /\ ~(chunkI < Len(pageText))
  /\ chunkPc' = "returned"
  /\ UNCHANGED <<pageText, size, overlap, chunkI, chunks, chunkCall, firstChunks,
                 outsideChunk>>

\* The caller keeps the list and calls chunkText again, same arguments.
ChunkAgain ==
  /\ chunkPc = "returned"
  /\ chunkCall = 1
  /\ firstChunks' = chunks
  /\ chunkCall' = 2
  /\ chunkPc' = "start"
  /\ UNCHANGED <<pageText, size, overlap, chunkI, chunks, outsideChunk>>

\* 62 characters, no two alike.
Alphabet == "abcdefghijklmnopqrstuvwxyzABCDEFGHIJKLMNOPQRSTUVWXYZ0123456789"

RECURSIVE Repeat(_, _)
Repeat(s, n) == IF n = 0 THEN "" ELSE s \o Repeat(s, n - 1)

\* n characters without white space.
Word(n) == Repeat(Alphabet, n \div Len(Alphabet)) \o SubSeq(Alphabet, 1, n % Len(Alphabet))

\* The runs a text is made of: words and stretches of white space.
Runs == {Word(3), Word(50), Word(51), Word(60), " ", Repeat(" \n", 30)}

RECURSIVE Concat(_)
Concat(runs) == IF runs = <<>> THEN "" ELSE Head(runs) \o Concat(Tail(runs))

\* The texts of the model: up to MaxRuns runs, and the 1000 characters
\* without white space of the example.
Texts == {Concat(runs) : runs \in SeqsUpTo(Runs, MaxRuns)} \cup {Word(1000)}

\* chunkText(text, size, overlap) with 0 <= overlap < size.
ChunkParams ==
  {p \in {51, 60, DefaultSize} \X {0, 10, DefaultOverlap} : p[2] < p[1]}

ChunkArgs ==
  /\ pageText \in Texts
  /\ \E p \in ChunkParams : size = p[1] /\ overlap = p[2]
  /\ chunkI = 0
  /\ chunks = <<>>
  /\ chunkPc = "start"
  /\ chunkCall = 1
  /\ firstChunks = <<>>

\* No call of chunkText is followed.
ChunkIdle ==
  /\ pageText = ""
  /\ size = DefaultSize
  /\ overlap = DefaultOverlap
  /\ chunkI = 0
  /\ chunks = <<>>
  /\ chunkPc = "idle"
  /\ chunkCall = 1
  /\ firstChunks = <<>>

\* chunkText as a function: the list the loop of route.ts:283-286 builds
\* from offset `at` on.
RECURSIVE chunkText(_, _, _, _)
chunkText(s, at, sz, ov) ==
  IF at < Len(s)
    THEN LET piece == Piece(s, at, sz)
             rest == chunkText(s, Advance(at, sz, ov), sz, ov)
         IN IF Keeps(piece) THEN <<piece>> \o rest ELSE rest
    ELSE <<>>

\* ------------------------------------------------------------------------
\* ensurePageIndexed (route.ts:370-385) and scrapePage (route.ts:324-342)
\* inside the loop of ensurePagesIndexed (route.ts:393-395)
\* ------------------------------------------------------------------------
\* The count of route.ts:371 when the query failed.
NullCount == -1

\* The table documents: the rows it held before the run and those the run
\* has inserted (route.ts:381).
Documents == prior \o inserted

\* The rows of documents with the given url.
RowsOf(url) == Cardinality({k \in 1..Len(Documents) : Documents[k].url = url})

\* What the store answers to the count query of route.ts:371-374.
CountReplies(url) == {RowsOf(url), NullCount}

\* A mutation of AlreadyIndexed: the count is not looked at.
AlreadyIndexedNever(count) == FALSE

\* route.ts:376
AlreadyIndexed(count) == count # NullCount /\ count # 0 /\ count > 0

\* What page.evaluate returns in scrapePage (route.ts:328-337): the text of
\* the page, its white space collapsed.
PageTexts == {"", Word(60), Word(1000)}

\* The url the loop of route.ts:393 is at.
CurrentUrl == urls[urlIdx]

\* ensurePageIndexed is entered anew for the next url.
PageReset ==
  /\ pagePc' = "count"
  /\ pageChunks' = <<>>
  /\ chunkIdx' = 0
  /\ pageError' = FALSE

\* route.ts:394: ensurePageIndexed has resolved; the loop goes on.
IndexingReturned ==
  /\ urlIdx' = urlIdx + 1
  /\ PageReset
  /\ UNCHANGED <<console, runState, runError>>

\* A mutation of IndexingCaught: the loop has no catch, the rejection of
\* ensurePageIndexed goes to the finally block of route.ts:397.
IndexingEscapes ==
  /\ runError' = TRUE
  /\ runState' = "Closing"
  /\ PageReset
  /\ UNCHANGED <<console, urlIdx>>

\* route.ts:394: ensurePageIndexed has rejected; the catch logs the error
\* and the loop goes on.
IndexingCaught ==
  /\ console' = console \cup {"Error indexing"}
  /\ urlIdx' = urlIdx + 1
  /\ PageReset
  /\ UNCHANGED <<runState, runError>>

aroundPage == <<lastUserText, retrievedText, searchResult, rpcReply, leads,
                flagVars, pc, response, urls, browserOpen, browserCloses, prior,
                outsideRun>>

\* ensurePageIndexed awaits something for the current url.
InPage(at) == runState = "Indexing" /\ urlIdx <= Len(urls) /\ pagePc = at

\* route.ts:371-378: the count query has settled; the page is skipped, or
\* scrapePage is entered and awaits browser.newPage (route.ts:325).
PageCounted ==
  /\ InPage("count")
  /\ attempted' = Append(attempted, CurrentUrl)
  /\ \E count \in CountReplies(CurrentUrl) :
       /\ reported' = IF count # NullCount /\ count > 0
                        THEN reported \cup {CurrentUrl} ELSE reported
       /\ IF AlreadyIndexed(count)
            THEN /\ IndexingReturned
                 /\ UNCHANGED <<scraped, pageOpens>>
            ELSE /\ pagePc' = "newPage"
                 /\ scraped' = Append(scraped, CurrentUrl)
                 /\ pageOpens' = pageOpens + 1
                 /\ UNCHANGED <<pageChunks, chunkIdx, pageError, urlIdx, console,
                                runState, runError>>
  /\ UNCHANGED <<inserted, embedded, pagesOpen, indexedLog, insertFailed,
                 embedFailed, aroundPage>>

\* route.ts:325-327: browser.newPage has settled.  It is outside the try of
\* scrapePage: a failure rejects ensurePageIndexed at once.
PageOpened ==
  /\ InPage("newPage")
  /\ \E ok \in BOOLEAN :
       IF ok
         THEN /\ pagePc' = "goto"
              /\ pagesOpen' = pagesOpen + 1
              /\ UNCHANGED <<pageChunks, chunkIdx, pageError, urlIdx, console,
                             runState, runError>>
         ELSE /\ IndexingCaught
              /\ UNCHANGED pagesOpen
  /\ UNCHANGED <<inserted, reported, attempted, scraped, embedded, pageOpens,
                 indexedLog, insertFailed, embedFailed, aroundPage>>

\* route.ts:327-328: page.goto has settled; on failure the finally block
\* awaits page.close (route.ts:339-340).
PageLoaded ==
  /\ InPage("goto")
  /\ \E ok \in BOOLEAN :
       /\ pagePc' = IF ok THEN "evaluate" ELSE "close"
       /\ pageError' = ~ok
  /\ UNCHANGED <<inserted, reported, attempted, scraped, embedded, pageChunks,
                 chunkIdx, pageOpens, pagesOpen, urlIdx, console, runState,
                 runError, indexedLog, insertFailed, embedFailed, aroundPage>>

\* route.ts:328-340: page.evaluate has settled; chunkText runs on the text
\* and the finally block awaits page.close.
PageExtracted ==
  /\ InPage("evaluate")
  /\ \/ \E t \in PageTexts :
          /\ pageChunks' = chunkText(t, 0, DefaultSize, DefaultOverlap)
          /\ UNCHANGED pageError
     \/ /\ pageError' = TRUE
        /\ UNCHANGED pageChunks
  /\ pagePc' = "close"
  /\ UNCHANGED <<inserted, reported, attempted, scraped, embedded, chunkIdx,
                 pageOpens, pagesOpen, urlIdx, console, runState, runError,
                 indexedLog, insertFailed, embedFailed, aroundPage>>
\* route.ts:339-341, 378-380: the page.close of the finally block has
\* settled.  scrapePage returns the chunks, and embedText is called for the
\* first of them, or it rejects with the pending error or with that of close.
PageClosed ==
  /\ InPage("close")
  /\ \E ok \in BOOLEAN :
       /\ pagesOpen' = IF ok THEN pagesOpen - 1 ELSE pagesOpen
       /\ IF ok /\ ~pageError
            THEN IF pageChunks = <<>>
                   THEN /\ IndexingReturned
                        /\ indexedLog' = Append(indexedLog, CurrentUrl)
                        /\ UNCHANGED embedded
                   ELSE /\ pagePc' = "embed"
                        /\ embedded' = embedded \cup {CurrentUrl}
                        /\ UNCHANGED <<pageChunks, chunkIdx, pageError, urlIdx,
                                       console, runState, runError, indexedLog>>
            ELSE /\ IndexingCaught
                 /\ UNCHANGED <<embedded, indexedLog>>
  /\ UNCHANGED <<inserted, reported, attempted, scraped, pageOpens, insertFailed,
                 embedFailed, aroundPage>>

\* A mutation of EmbedRejected: the rejection is swallowed and the insert of
\* the chunk is issued all the same.
EmbedRejectedSwallowed ==
  /\ pagePc' = "insert"
  /\ UNCHANGED <<pageChunks, chunkIdx, pageError, urlIdx, console, runState,
                 runError>>

\* route.ts:380: embedText has rejected inside the loop; there is no catch
\* in ensurePageIndexed, the rejection leaves the loop and the function.
EmbedRejected == IndexingCaught

\* route.ts:380-381: embedText has settled for the chunk at chunkIdx; with a
\* vector the insert is issued and awaited, a rejection leaves
\* ensurePageIndexed.
ChunkEmbedded ==
  /\ InPage("embed")
  /\ \E outcome \in EmbedOutcomes :
       IF outcome = "vector"
         THEN /\ pagePc' = "insert"
              /\ UNCHANGED <<pageChunks, chunkIdx, pageError, urlIdx, console,
                             runState, runError, embedFailed>>
         ELSE /\ EmbedRejected
              /\ embedFailed' = embedFailed \cup {<<CurrentUrl, chunkIdx>>}
  /\ UNCHANGED <<inserted, reported, attempted, scraped, embedded, pageOpens,
                 pagesOpen, indexedLog, insertFailed, aroundPage>>

\* route.ts:379-384: the insert has settled.  Its result is not looked at:
\* with or without an error the loop goes on to the next chunk, or
\* ensurePageIndexed returns.
ChunkInserted ==
  /\ InPage("insert")
  /\ \E error \in BOOLEAN :
       /\ inserted' = IF error THEN inserted
                      ELSE Append(inserted, [url |-> CurrentUrl,
                                             chunk_index |-> chunkIdx,
                                             text |-> pageChunks[chunkIdx + 1]])
       /\ insertFailed' = IF error THEN insertFailed \cup {<<CurrentUrl, chunkIdx>>}
                          ELSE insertFailed
  /\ IF chunkIdx + 1 < Len(pageChunks)
       THEN /\ chunkIdx' = chunkIdx + 1
            /\ pagePc' = "embed"
            /\ UNCHANGED <<pageChunks, pageError, urlIdx, console, runState,
                           runError, indexedLog>>
       ELSE /\ IndexingReturned
            /\ indexedLog' = Append(indexedLog, CurrentUrl)
  /\ UNCHANGED <<reported, attempted, scraped, embedded, pageOpens, pagesOpen,
                 embedFailed, aroundPage>>

\* ensurePageIndexed has not been called.
PageIdle ==
  /\ pagePc = "count"
  /\ prior = <<>>
  /\ inserted = <<>>
  /\ reported = {}
  /\ attempted = <<>>
  /\ scraped = <<>>
  /\ embedded = {}
  /\ pageChunks = <<>>
  /\ chunkIdx = 0
  /\ pageOpens = 0
  /\ pagesOpen = 0
  /\ pageError = FALSE
  /\ indexedLog = <<>>
  /\ insertFailed = {}
  /\ embedFailed = {}

\* route.ts:378-383: the rows ensurePageIndexed leaves for a page of the
\* given text when nothing fails.
IndexedRows(url, t) ==
  LET c == chunkText(t, 0, DefaultSize, DefaultOverlap)
  IN [k \in 1..Len(c) |-> [url |-> url, chunk_index |-> k - 1, text |-> c[k]]]

\* The table after an earlier run indexed the urls of S among the first k
\* found, each a page of one chunk.
RECURSIVE StoreOf(_, _)
StoreOf(S, k) ==
  IF k = 0 THEN <<>>
  ELSE StoreOf(S, k - 1)
         \o (IF FoundOrder[k] \in S THEN IndexedRows(FoundOrder[k], Word(60))
             ELSE <<>>)

\* The store before the run: the rows an earlier run has left.
PageArgs ==
  /\ pagePc = "count"
  /\ prior \in {StoreOf(S, MaxFound) : S \in SUBSET {FoundOrder[k] : k \in 1..MaxFound}}
  /\ inserted = <<>>
  /\ reported = {}
  /\ attempted = <<>>
  /\ scraped = <<>>
  /\ embedded = {}
  /\ pageChunks = <<>>
  /\ chunkIdx = 0
  /\ pageOpens = 0
  /\ pagesOpen = 0
  /\ pageError = FALSE
  /\ indexedLog = <<>>
  /\ insertFailed = {}
  /\ embedFailed = {}

\* ------------------------------------------------------------------------
\* Specification of the handler and the run
\* ------------------------------------------------------------------------
PostIdle ==
  /\ indexingStarted = FALSE
  /\ pc = [r \in Requests |-> "idle"]
  /\ lastUserText = [r \in Requests |-> ""]
  /\ retrievedText = [r \in Requests |-> ""]
  /\ searchResult = [r \in Requests |-> NotCalled]
  /\ rpcReply = [r \in Requests |-> NoReply]
  /\ response = [r \in Requests |-> "none"]
  /\ triggered = [r \in Requests |-> FALSE]
  /\ runsStarted = 0
  /\ browsersLaunched = 0
  /\ runState = "NotStarted"
  /\ urls = <<>>
  /\ urlIdx = 1
  /\ runError = FALSE
  /\ browserOpen = FALSE
  /\ browserCloses = 0
  /\ console = {}
  /\ leads = [r \in Requests |-> "none"]
  /\ process = 1

Init == PostIdle /\ EmbedIdle /\ CrawlIdle /\ ChunkIdle /\ PageIdle /\ ToolIdle

Next ==
  \/ \E r \in Requests : PostArrive(r)
  \/ \E r \in Requests : PostBadBody(r)
  \/ \E r \in Requests : PostLeadForm(r)
  \/ \E r \in Requests : PostLeadSaved(r)
  \/ \E r \in Requests : PostQuery(r)
  \/ \E r \in Requests : PostEmbedded(r)
  \/ \E r \in Requests : PostRpc(r)
  \/ RunLaunched
  \/ RunCrawled
  \/ RunPageIndexed
  \/ RunLoopDone
  \/ RunClosed

Spec == Init /\ [][Next]_vars

\* ------------------------------------------------------------------------
\* Specification of one call of embedText
\* ------------------------------------------------------------------------
EmbedInit == PostIdle /\ EmbedArgs /\ CrawlIdle /\ ChunkIdle /\ PageIdle /\ ToolIdle

EmbedNext ==
  \/ EmbedEnter
  \/ EmbedSettled
  \/ EmbedTimer

EmbedSpec == EmbedInit /\ [][EmbedNext]_vars

\* ------------------------------------------------------------------------
\* Specification of one call of crawlSiteRecursive
\* ------------------------------------------------------------------------
CrawlInit == PostIdle /\ EmbedIdle /\ CrawlArgs /\ ChunkIdle /\ PageIdle /\ ToolIdle

CrawlNext ==
  \/ CrawlEnter
  \/ NewPageSettled
  \/ GotoSettled
  \/ EvaluateSettled
  \/ CloseSettled
  \/ CatchCloseSettled

CrawlSpec == CrawlInit /\ [][CrawlNext]_vars

\* One call of crawlSiteRecursive on a site of one origin whose pages load.
SiteInit == PostIdle /\ EmbedIdle /\ SiteArgs /\ ChunkIdle /\ PageIdle /\ ToolIdle

SiteNext ==
  \/ CrawlEnter
  \/ NewPageSettled
  \/ GotoSettled
  \/ EvaluateSettled
  \/ CloseSettled

SiteSpec == SiteInit /\ [][SiteNext]_vars

\* Every awaited operation of the browser settles (navigation is bounded by
\* the timeout of route.ts:298), so a suspended crawl is always resumed.
CrawlFair == CrawlSpec /\ WF_vars(CrawlNext)

\* ------------------------------------------------------------------------
\* Specification of chunkText, called twice with the same arguments
\* ------------------------------------------------------------------------
ChunkInit == PostIdle /\ EmbedIdle /\ CrawlIdle /\ ChunkArgs /\ PageIdle /\ ToolIdle

ChunkNext ==
  \/ ChunkEnter
  \/ ChunkIterate
  \/ ChunkReturn
  \/ ChunkAgain

ChunkSpec == ChunkInit /\ [][ChunkNext]_vars

\* chunkText is synchronous: once entered it runs on.
ChunkFair == ChunkSpec /\ WF_vars(ChunkNext)

\* ------------------------------------------------------------------------
\* Specification of one run of ensurePagesIndexed
\* ------------------------------------------------------------------------
\* The first request (no text in its last user message) has started the run
\* at route.ts:478-480 and has been answered; the run awaits
\* puppeteer.launch.
RunStarted ==
  /\ indexingStarted = TRUE
  /\ pc = [r \in Requests |-> IF r = 1 THEN "done" ELSE "idle"]
  /\ lastUserText = [r \in Requests |-> ""]
  /\ retrievedText = [r \in Requests |-> ""]
  /\ searchResult = [r \in Requests |-> NotCalled]
  /\ rpcReply = [r \in Requests |-> NoReply]
  /\ response = [r \in Requests |-> IF r = 1 THEN Respond("") ELSE "none"]
  /\ triggered = [r \in Requests |-> r = 1]
  /\ runsStarted = 1
  /\ browsersLaunched = 1
  /\ runState = "Launching"
  /\ urls = <<>>
  /\ urlIdx = 1
  /\ runError = FALSE
  /\ browserOpen = FALSE
  /\ browserCloses = 0
  /\ console = {}
  /\ leads = [r \in Requests |-> "none"]
  /\ process = 1

IndexInit ==
  RunStarted /\ EmbedIdle /\ CrawlIdle /\ ChunkIdle /\ PageArgs /\ ToolIdle

IndexNext ==
  \/ RunLaunched
  \/ RunCrawled
  \/ PageCounted
  \/ PageOpened
  \/ PageLoaded
  \/ PageExtracted
  \/ PageClosed
  \/ ChunkEmbedded
  \/ ChunkInserted
  \/ RunLoopDone
  \/ RunClosed

IndexSpec == IndexInit /\ [][IndexNext]_vars

\* ------------------------------------------------------------------------
\* Specification of one whole run: the crawl and the indexing of its result
\* ------------------------------------------------------------------------
\* route.ts:389-391, 291-297: puppeteer.launch has settled; with a browser
\* crawlSiteRecursive(browser, baseUrl) is called, with its default depth,
\* and runs up to its first await.
RunLaunchedCrawls ==
  /\ runState = "Launching"
  /\ crawlPc = "idle"
  /\ \E ok \in BOOLEAN :
       IF ok
         THEN /\ runState' = "Crawling"
              /\ browserOpen' = TRUE
              /\ UNCHANGED <<pc, response, console>>
              /\ Resume(Call(Memory, Seed, crawlDepth))
              /\ UNCHANGED <<site, flaky, pageLinks, crawlDepth, loaded, openPages>>
         ELSE /\ runState' = "Failed"
              /\ UNCHANGED browserOpen
              /\ CatchConsoleError
              /\ UNCHANGED crawlVars
  /\ UNCHANGED <<lastUserText, retrievedText, searchResult, rpcReply, leads, flagVars,
                 urls, urlIdx, runError, browserCloses, embedVars, chunkVars,
                 toolVars, process, pageVars>>

\* route.ts:391-393: the crawl has settled; its list goes to the loop over
\* the urls, its exception to the finally block.
RunCrawlSettled ==
  /\ runState = "Crawling"
  /\ crawlPc \in {"returned", "threw"}
  /\ IF crawlPc = "returned"
       THEN /\ urls' = crawlOut
            /\ urlIdx' = 1
            /\ runState' = "Indexing"
            /\ UNCHANGED runError
       ELSE /\ runError' = TRUE
            /\ runState' = "Closing"
            /\ UNCHANGED <<urls, urlIdx>>
  /\ UNCHANGED <<reqVars, flagVars, pc, response, console, browserOpen, browserCloses>>

\* The site the run will crawl; crawlSiteRecursive is not yet called.
WebArgs ==
  /\ site = Urls
  /\ flaky = TRUE
  /\ pageLinks = <<>>
  /\ crawlDepth = DefaultDepth
  /\ crawlPc = "idle"
  /\ stack = <<>>
  /\ visited = {}
  /\ loaded = <<>>
  /\ openPages = 0
  /\ crawlErrors = {}
  /\ revisits = {}
  /\ crawlSteps = 0
  /\ crawlOut = <<>>

WholeRunInit ==
  RunStarted /\ EmbedIdle /\ WebArgs /\ ChunkIdle /\ PageIdle /\ ToolIdle

WholeRunNext ==
  \/ RunLaunchedCrawls
  \/ NewPageSettled
  \/ GotoSettled
  \/ EvaluateSettled
  \/ CloseSettled
  \/ CatchCloseSettled
  \/ RunCrawlSettled
  \/ PageCounted
  \/ PageOpened
  \/ PageLoaded
  \/ PageExtracted
  \/ PageClosed
  \/ ChunkEmbedded
  \/ ChunkInserted
  \/ RunLoopDone
  \/ RunClosed

WholeRunSpec == WholeRunInit /\ [][WholeRunNext]_vars

\* ------------------------------------------------------------------------
\* Specification of the runs of successive server processes on one store
\* ------------------------------------------------------------------------
\* route.ts:412, 477-481: the server process is gone and a new one has
\* loaded the module; its first request has found indexingStarted false and
\* started the run.  Of the former process the rows of documents remain.
ProcessRestarted ==
  /\ runState \in {"Completed", "Failed"}
  /\ process < MaxProcesses
  /\ process' = process + 1
  /\ prior' = Documents
  /\ inserted' = <<>>
  /\ runState' = "Launching"
  /\ urls' = <<>>
  /\ urlIdx' = 1
  /\ runError' = FALSE
  /\ browserOpen' = FALSE
  /\ browserCloses' = 0
  /\ console' = {}
  /\ PageReset
  /\ reported' = {}
  /\ attempted' = <<>>
  /\ scraped' = <<>>
  /\ embedded' = {}
  /\ pageOpens' = 0
  /\ pagesOpen' = 0
  /\ indexedLog' = <<>>
  /\ insertFailed' = {}
  /\ embedFailed' = {}
  /\ UNCHANGED <<lastUserText, retrievedText, searchResult, rpcReply, leads,
                 flagVars, pc, response, embedVars, crawlVars, chunkVars, toolVars>>

\* The first process starts on an empty table.
RerunInit ==
  RunStarted /\ EmbedIdle /\ CrawlIdle /\ ChunkIdle /\ PageIdle /\ ToolIdle

RerunNext ==
  \/ RunLaunched
  \/ RunCrawled
  \/ PageCounted
  \/ PageOpened
  \/ PageLoaded
  \/ PageExtracted
  \/ PageClosed
  \/ ChunkEmbedded
  \/ ChunkInserted
  \/ RunLoopDone
  \/ RunClosed
  \/ ProcessRestarted

RerunSpec == RerunInit /\ [][RerunNext]_vars

\* ------------------------------------------------------------------------
\* Specification of one request and its generation's tool calls
\* ------------------------------------------------------------------------
ToolNext ==
  \/ PostArrive(1)
  \/ PostQuery(1)
  \/ PostEmbedded(1)
  \/ PostRpc(1)
  \/ ToolCalled(1)
  \/ ToolEmbedded(1)
  \/ ToolRpc(1)

ToolSpec == Init /\ [][ToolNext]_vars

\* ------------------------------------------------------------------------
\* Properties of the handler and the run
\* ------------------------------------------------------------------------
TypeOK ==
  /\ indexingStarted \in BOOLEAN
  /\ pc \in [Requests -> {"idle", "json", "lead", "embed", "rpc", "done"}]
  /\ lastUserText \in [Requests -> UserTexts]
  /\ response \in [Requests -> {"none", "rejected", "500", "200",
                                "stream:noContext", "stream:withContext"}]
  /\ triggered \in [Requests -> BOOLEAN]
  /\ runsStarted \in 0..NumRequests
  /\ browsersLaunched \in 0..NumRequests
  /\ runState \in RunStates
  /\ urls \in CrawlOutputs
  /\ urlIdx \in 1..(Len(urls) + 1)
  /\ runError \in BOOLEAN
  /\ browserOpen \in BOOLEAN
  /\ browserCloses \in 0..NumRequests

Streams == {"stream:noContext", "stream:withContext"}

\* The request went through the guard of route.ts:478 (it carried no form).
PastGuard(r) == pc[r] \in {"embed", "rpc"} \/ response[r] \in Streams

\* C1: whatever the number of requests without a form and however their
\* suspension points interleave, ensurePagesIndexed is started exactly once:
\* as soon as one request is past the guard one run was started, never a
\* second, and exactly one request is the one that started it.
C1_SingleFlight ==
  /\ runsStarted <= 1
  /\ Cardinality({r \in Requests : triggered[r]}) = runsStarted
  /\ (\E r \in Requests : PastGuard(r)) => runsStarted = 1 /\ indexingStarted

\* C1 witness: two requests are suspended past the guard at the same time.
C1_Witness ==
  \E r1, r2 \in Requests :
    /\ r1 # r2
    /\ pc[r1] = "embed" /\ pc[r2] = "embed"
    /\ triggered[r1] /\ ~triggered[r2]
    /\ runsStarted = 1

RunRank(st) ==
  CASE st = "NotStarted" -> 0
    [] st = "Launching" -> 1
    [] st = "Crawling" -> 2
    [] st = "Indexing" -> 3
    [] st = "Closing" -> 4
    [] st \in {"Completed", "Failed"} -> 5

\* C2: the run only moves forward from NotStarted through Running to its end
\* and the flag follows it: once indexingStarted is true it stays true, and
\* no later step (a trigger while the run is in progress, after it completed
\* or after it failed) starts a run or launches a browser.
C2_NoRestart ==
  [][ /\ (indexingStarted <=> runState # "NotStarted")
      /\ RunRank(runState') >= RunRank(runState)
      /\ indexingStarted =>
           /\ indexingStarted'
           /\ runsStarted' = runsStarted
           /\ browsersLaunched' = browsersLaunched ]_vars

\* C2 witness: a request went through the guard without starting anything
\* and the only run has ended with an error.
C2_Witness ==
  \E r \in Requests :
    /\ PastGuard(r) /\ ~triggered[r]
    /\ runState = "Failed"
    /\ runsStarted = 1 /\ browsersLaunched = 1

\* C3: the request that started the run never waits for it and never fails
\* with it: while it is suspended its next step is enabled whatever the state
\* of the run, and whatever happens to the run its response is the stream.
C3_TriggerDoesNotWait ==
  \A r \in Requests :
    triggered[r] =>
      /\ response[r] \in Streams \cup {"none"}
      /\ pc[r] = "done" => response[r] \in Streams
      /\ pc[r] = "embed" => ENABLED PostEmbedded(r)
      /\ pc[r] = "rpc" => ENABLED PostRpc(r)
      /\ pc[r] \in {"embed", "rpc", "done"}

\* C3 witness: the triggering request has its response while the run is
\* still going on, with a crawl error on its way to the finally block.
C3_Witness ==
  \E r \in Requests :
    /\ triggered[r] /\ pc[r] = "done" /\ response[r] \in Streams
    /\ runState = "Closing" /\ runError

\* C4 as stated: when the rpc reports an error, searchDocuments returns the
\* empty string to its caller and raises nothing.
C4_Original ==
  \A r \in Requests :
    (searchResult[r].called /\ rpcReply[r].error) =>
      /\ ~searchResult[r].threw
      /\ searchResult[r].value = ""

\* C4 amended: when the rpc reports an error, searchDocuments throws that
\* error to its caller; the catch of POST around the retrieval done before
\* generation absorbs it, retrievedText stays the empty string and the
\* request is answered without retrieved context.
C4_Amended ==
  \A r \in Requests :
    (searchResult[r].called /\ rpcReply[r].error) =>
      /\ searchResult[r].threw
      /\ searchResult[r].error = "storeError"
      /\ retrievedText[r] = ""
      /\ response[r] = "stream:noContext"
      /\ "Vector search error" \in console

\* C4 witness: a request whose similarity query reported an error is done.
C4_Witness ==
  \E r \in Requests :
    /\ rpcReply[r].error /\ searchResult[r].called
    /\ pc[r] = "done"

\* ------------------------------------------------------------------------
\* Properties of embedText
\* ------------------------------------------------------------------------
EmbedTypeOK ==
  /\ retries \in 0..MaxRetries
  /\ i \in 0..retries
  /\ embPc \in {"idle", "start", "call", "wait", "returned", "threw"}
  /\ calls \in 0..(MaxRetries + 1)
  /\ Len(served) <= calls
  /\ Len(waits) <= Len(served)

\* The explicit "too many requests" status.
Status429(err) == err.isObject /\ err.hasStatusCode /\ err.statusCode = 429

\* A rate-limit signal in the words of the specification: status 429 or a
\* message that tells of quota exhaustion.
RateLimitSignal(err) ==
  \/ Status429(err)
  \/ err.hasMessage /\ Includes(err.message, "exhausted")

RECURSIVE Pow2(_)
Pow2(n) == IF n = 0 THEN 1 ELSE 2 * Pow2(n - 1)

\* delay, 2*delay, ..., 2^(k-1)*delay
Backoff(d, k) == [j \in 1..k |-> d * Pow2(j - 1)]

Answered429(k) ==
  /\ Len(served) >= k
  /\ \A j \in 1..k : ~served[j].ok /\ Status429(served[j].err)

\* C5: when the service answers the first k calls with status 429, k <
\* retries, embedText does not give up, and when the next call succeeds it
\* returns that call's vector after exactly k+1 calls and exactly k waits of
\* delay, 2*delay, ..., 2^(k-1)*delay, in that order.
C5_RetryThenSuccess ==
  \A k \in 0..MaxRetries :
    (k < retries /\ Len(served) >= k /\ Answered429(k)) =>
      /\ (Len(served) = k /\ embPc # "start") =>
           /\ embPc \in {"wait", "call"}
           /\ waits = Backoff(delay0, k)
      /\ (Len(served) = k + 1 /\ served[k + 1].ok) =>
           /\ embPc = "returned"
           /\ embedResult = [kind |-> "vector", vector |-> served[k + 1].vector,
                             err |-> NoError]
           /\ calls = k + 1
           /\ waits = Backoff(delay0, k)

\* C5 witness: the defaults, two answers 429, then a vector: three calls and
\* waits of 2000 ms and 4000 ms.
C5_Witness ==
  /\ retries = DefaultRetries /\ delay0 = DefaultDelay
  /\ Answered429(2) /\ Len(served) = 3
  /\ embPc = "returned" /\ embedResult.vector = "v2"
  /\ calls = 3
  /\ waits = <<2000, 4000>>

Ended == embPc \in {"returned", "threw"}

C7_FatalAtOnce ==
  LET n == Len(served) IN
    (n > 0 /\ ~served[n].ok /\ ~RateLimitSignal(served[n].err)) =>
      /\ embPc = "threw"
      /\ embedResult = [kind |-> "error", vector |-> "none", err |-> served[n].err]
      /\ calls = n
      /\ Len(waits) = n - 1
      /\ ~ENABLED EmbedNext

\* C7 witness: a server error on the second of five attempts.
C7_Witness ==
  /\ retries = DefaultRetries
  /\ Len(served) = 2 /\ Answered429(1) /\ served[2].err = ServerError
  /\ embPc = "threw" /\ embedResult.err = ServerError
  /\ calls = 2 /\ i = 1

\* The call has the default policy and every answer so far was status 429.
DefaultsAlways429 ==
  /\ retries = DefaultRetries
  /\ delay0 = DefaultDelay
  /\ embPc # "start"
  /\ Answered429(Len(served))

\* C19: with the defaults (5 attempts, 2000 ms) and a service that answers
\* every call with status 429, embedText waits four times, 2000, 4000,
\* 8000 and 16000 ms, once between two attempts: it never waits when no
\* attempt is left, and has waited exactly those four times when it fails.
C19_FourWaits ==
  DefaultsAlways429 =>
    /\ Len(waits) <= 4
    /\ waits = SubSeq(<<2000, 4000, 8000, 16000>>, 1, Len(waits))
    /\ embPc = "wait" => calls < retries
    /\ embPc = "threw" => waits = <<2000, 4000, 8000, 16000>>

\* C20: an answer that is a failure is retried after a wait when it is a
\* rate-limit signal (status 429, or a message that contains "exhausted",
\* with or without a status code), and ends the call at once otherwise.
C20_Classification ==
  \A k \in 1..Len(served) :
    ~served[k].ok =>
      IF RateLimitSignal(served[k].err)
        THEN Len(waits) >= k
        ELSE /\ k = Len(served)
             /\ Len(waits) = k - 1
             /\ embPc = "threw"
             /\ embedResult.err = served[k].err

\* ------------------------------------------------------------------------
\* Properties of crawlSiteRecursive
\* ------------------------------------------------------------------------
NoRepeat(list) ==
  \A a, b \in 1..Len(list) : a # b => list[a] # list[b]

Count(u, list) == Cardinality({k \in 1..Len(list) : list[k] = u})

Elements(list) == {list[k] : k \in 1..Len(list)}

CrawlTypeOK ==
  /\ crawlDepth \in 0..MaxDepth
  /\ crawlPc \in {"idle", "start", "running", "returned", "threw"}
  /\ visited \subseteq Urls
  /\ Elements(loaded) \subseteq visited
  /\ Len(stack) <= crawlDepth
  /\ (crawlPc = "running") <=> (stack # <<>>)
  /\ openPages \in 0..MaxDepth

CrawlEnded == crawlPc \in {"returned", "threw"}

\* What holds at every step of a crawl: a step is enabled until the crawl
\* has returned or thrown; it has taken at most one step to enter and five
\* for every url it marked visited; the recursion is no deeper than the
\* depth asked for; no url went to page.goto twice; a returned list repeats
\* no url; with depth 0 the crawl returns the empty list at once, no page
\* opened, none loaded.
CrawlBounded ==
  /\ CrawlEnded \/ ENABLED CrawlNext
  /\ crawlSteps <= 1 + 5 * Cardinality(visited)
  /\ Len(stack) <= crawlDepth
  /\ NoRepeat(loaded)
  /\ crawlPc = "returned" => NoRepeat(crawlOut)
  /\ (crawlDepth = 0 /\ crawlPc # "start") =>
       /\ crawlPc = "returned"
       /\ crawlOut = <<>>
       /\ loaded = <<>>
       /\ visited = {}
       /\ openPages = 0

\* C8: whatever pages the site serves (cycles and self-links included) and
\* whatever the depth, the crawl comes to an end (it returns or throws) once
\* every awaited browser call settles, and all along it loads each url at
\* most once and returns a list without a repeated url; with depth 0 it
\* returns the empty list without loading a page.
C8_CrawlTerminates == <>CrawlEnded /\ []CrawlBounded

\* C8 witness: a crawl of depth 3 met links back to the seed and to the
\* about page (a cycle or a self-link each) and has returned both pages.
C8_Witness ==
  /\ crawlDepth = 3
  /\ crawlPc = "returned"
  /\ {Seed, AboutPage} \subseteq revisits
  /\ crawlOut = <<Seed, AboutPage>>
  /\ loaded = crawlOut

\* C9 as stated: with depth >= 1 the returned list holds the seed exactly
\* once, whichever page loads fail.
C9_Original ==
  (crawlPc = "returned" /\ crawlDepth >= 1) => Count(Seed, crawlOut) = 1

\* C9 amended: with depth >= 1 the returned list holds the seed exactly once,
\* as its first element, unless the seed's own activation ended in its catch
\* block (an 'Error crawling <seed>' event: its page failed to load or close,
\* or an error escaped a nested crawl), in which case the list is empty.
C9_Amended ==
  (crawlPc = "returned" /\ crawlDepth >= 1) =>
    IF Seed \in crawlErrors
      THEN crawlOut = <<>>
      ELSE /\ Count(Seed, crawlOut) = 1
           /\ crawlOut[1] = Seed

\* C9 witness: the seed links to itself and to a page that failed; the
\* list returned is the seed alone.
C9_Witness ==
  /\ crawlPc = "returned" /\ crawlDepth >= 1
  /\ Seed \in revisits
  /\ crawlErrors = {AboutPage}
  /\ crawlOut = <<Seed>>

\* C10 as stated: every url the crawl visits, loads or returns has the
\* origin of the seed.
C10_SameOrigin ==
  \A u \in visited \cup Elements(loaded) \cup Elements(crawlOut) :
    OriginOf[u] = OriginOf[Seed]

\* The topmost activation is in its catch block because the navigation or the
\* link extraction of its page failed, and awaits page.close (route.ts:317).
PageFailed ==
  /\ crawlPc = "running"
  /\ Top(stack).pc = "catchClose"
  /\ Top(stack).cause \in {"goto", "evaluate"}

\* C11: when the navigation or the link extraction of a page fails, the
\* activation of that page raises no error to its caller (neither the
\* outermost caller nor the activation that awaits it is handed an error)
\* and the page context opened for it is released.
C11_FailedPageContained ==
  [][PageFailed => /\ crawlPc' # "threw"
                   /\ crawlErrors' = crawlErrors
                   /\ openPages' = openPages - 1]_vars

\* ------------------------------------------------------------------------
\* Properties of chunkText
\* ------------------------------------------------------------------------
ChunkTypeOK ==
  /\ pageText \in Texts
  /\ <<size, overlap>> \in ChunkParams
  /\ chunkPc \in {"start", "loop", "returned"}
  /\ chunkCall \in {1, 2}
  /\ chunkI \in Nat

RepeatedCallReturned == chunkPc = "returned" /\ chunkCall = 2

\* What holds of the list all along: no chunk is longer than size, none
\* has a trimmed length of 50 or less, and the repeated call has returned
\* what the first call returned.
ChunkBounded ==
  /\ \A k \in 1..Len(chunks) :
       /\ Len(chunks[k]) <= size
       /\ Len(Trim(chunks[k])) > MinChunk
  /\ RepeatedCallReturned => chunks = firstChunks

\* C12: for the texts and every (size, overlap) with 0 <= overlap < size,
\* chunkText terminates (both calls return), the second call returns the
\* list the first returned, every chunk has length <= size and no chunk
\* has trimmed length <= 50.
C12_ChunkContract == <>RepeatedCallReturned /\ []ChunkBounded

\* The offsets 0, size-overlap, 2*(size-overlap), ... below the length.
Offsets(len, sz, ov) == {k * (sz - ov) : k \in 0..len} \cap 0..(len - 1)

\* s without the white space at its two ends: as many characters are cut
\* at either end as s has prefixes, or suffixes, of white space only.
Stripped(s) ==
  LET White(k) == SubSeq(s, k, k) \in WhiteSpace
      lead == Cardinality({k \in 1..Len(s) : \A j \in 1..k : White(j)})
      trail == Cardinality({k \in 1..Len(s) : \A j \in k..Len(s) : White(j)})
  IN IF lead = Len(s) THEN "" ELSE SubSeq(s, lead + 1, Len(s) - trail)

\* The window at offset at: up to sz characters of s, stripped.
Window(s, at, sz) ==
  Stripped(SubSeq(s, at + 1, IF at + sz > Len(s) THEN Len(s) ELSE at + sz))

RECURSIVE Ascending(_)
Ascending(S) ==
  IF S = {} THEN <<>>
  ELSE LET least == CHOOSE x \in S : \A y \in S : x <= y
       IN <<least>> \o Ascending(S \ {least})

\* The offsets below `upTo` whose window is kept.
KeptOffsets(s, sz, ov, upTo) ==
  {at \in Offsets(Len(s), sz, ov) : at < upTo /\ Len(Window(s, at, sz)) > MinChunk}

\* The reference sliding window over the offsets below `upTo`: the kept
\* windows in increasing order of offset.
SlidingWindow(s, sz, ov, upTo) ==
  LET kept == Ascending(KeptOffsets(s, sz, ov, upTo))
  IN [k \in 1..Len(kept) |-> Window(s, kept[k], sz)]

\* C13: chunkText is the reference sliding window: after every turn of the
\* loop the list holds the kept windows of the offsets passed, in order,
\* each the trimmed substring of up to size characters, a dropped window
\* leaving no trace; the returned list is that of all offsets, and 1000
\* characters without white space with size 800 and overlap 200 give the
\* two chunks [0,800) and [600,1000).
C13_SlidingWindow ==
  /\ chunkPc = "loop" => chunks = SlidingWindow(pageText, size, overlap, chunkI)
  /\ chunkPc = "returned" =>
       chunks = SlidingWindow(pageText, size, overlap, Len(pageText))
  /\ (chunkPc = "returned" /\ pageText = Word(1000)
        /\ size = DefaultSize /\ overlap = DefaultOverlap) =>
       chunks = <<SubSeq(pageText, 1, 800), SubSeq(pageText, 601, 1000)>>

\* C12 witness: the repeated call has returned a list with a chunk of
\* exactly size characters, the text having a window of 50 characters
\* that was dropped.
C12_Witness ==
  /\ RepeatedCallReturned
  /\ \E k \in 1..Len(chunks) : Len(chunks[k]) = size
  /\ \E at \in Offsets(Len(pageText), size, overlap) :
       Len(Window(pageText, at, size)) = MinChunk

\* C13 witness: a call has returned two chunks that stood on either side
\* of a window dropped for being short though not empty.
C13_Witness ==
  /\ chunkPc = "returned"
  /\ Len(chunks) >= 2
  /\ \E lo, mid, hi \in Offsets(Len(pageText), size, overlap) :
       /\ lo < mid /\ mid < hi
       /\ {lo, hi} \subseteq KeptOffsets(pageText, size, overlap, Len(pageText))
       /\ Len(Window(pageText, mid, size)) \in 1..MinChunk

\* The example of C13 has been run.
ExampleChunked ==
  /\ chunkPc = "returned"
  /\ pageText = Word(1000) /\ size = DefaultSize /\ overlap = DefaultOverlap
  /\ Len(chunks) = 2

\* ------------------------------------------------------------------------
\* Properties of the indexing run
\* ------------------------------------------------------------------------
IndexTypeOK ==
  /\ pagePc \in {"count", "newPage", "goto", "evaluate", "close", "embed", "insert"}
  /\ urls \in CrawlOutputs
  /\ urlIdx \in 1..(Len(urls) + 1)
  /\ chunkIdx \in 0..2
  /\ pagesOpen \in 0..pageOpens
  /\ pageOpens = Len(scraped)

RunOver == runState \in {"Completed", "Failed"}

InsertedFor(u) == {k \in 1..Len(inserted) : inserted[k].url = u}

\* C14: a url the existence check reported as indexed is not extracted, has
\* no chunk embedded and gets no row; a run in which every discovered url
\* was so reported persists nothing and opens no page for extraction.
C14_IdempotentIndexing ==
  /\ \A u \in reported :
       /\ u \notin Elements(scraped)
       /\ u \notin embedded
       /\ InsertedFor(u) = {}
  /\ (Elements(attempted) \subseteq reported) =>
       /\ inserted = <<>>
       /\ pageOpens = 0
       /\ embedded = {}

\* C14 witness: a run over two urls, both reported as indexed, is over.
C14_Witness ==
  /\ runState = "Completed"
  /\ Len(urls) = 2
  /\ attempted = urls
  /\ reported = Elements(urls)
  /\ inserted = <<>>

\* What holds of the loop of route.ts:393-395 all along: the urls are
\* attempted in the order of the crawl's list, an exception on its way
\* through the finally block is the crawl's (no url was attempted), a run
\* past its loop has attempted every url, and a run that is not over has a
\* step to take.
LoopKeepsGoing ==
  /\ Len(attempted) <= Len(urls)
  /\ attempted = SubSeq(urls, 1, Len(attempted))
  /\ runError => attempted = <<>>
  /\ (runState \in {"Closing", "Completed", "Failed"} /\ ~runError) =>
       attempted = urls
  /\ RunOver \/ ENABLED IndexNext

\* A step of the run while it is inside ensurePageIndexed stays in the loop
\* and raises nothing, and the loop moves by one url at a time.
PageStepStays ==
  /\ (runState = "Indexing" /\ urlIdx <= Len(urls)) =>
       /\ runState' = "Indexing"
       /\ runError' = runError
       /\ browserCloses' = 0
  /\ urlIdx' # urlIdx => (urlIdx' = urlIdx + 1 \/ runState = "Crawling")

\* C15: a failure while one url is indexed (extraction, embedding, store)
\* does not abort the run: the urls after it are attempted, in order, and
\* the run goes on to its end without that failure being raised again.
C15_FailureDoesNotAbort == []LoopKeepsGoing /\ [][PageStepStays]_vars

\* C15 witness: the run is over, browser closed; the first of two urls
\* failed after its extraction had begun, the second got a row.
C15_Witness ==
  /\ runState = "Completed"
  /\ Len(urls) = 2
  /\ attempted = urls
  /\ "Error indexing" \in console
  /\ scraped = urls
  /\ InsertedFor(urls[1]) = {}
  /\ InsertedFor(urls[2]) # {}
  /\ browserCloses = 1

\* The run ends through browser.close only, called once and after the last
\* page, whether the loop was run through or the crawl raised.
ClosesOnce ==
  (runState \in {"Crawling", "Indexing", "Closing"} /\ runState' \in {"Completed", "Failed"}) =>
    /\ browserCloses = 0
    /\ browserCloses' = 1
    /\ pagePc = "count"
    /\ runError \/ attempted = urls

\* scrapePage asks for a page only of a browser that is open.
OpensOnOpenBrowser ==
  pageOpens' > pageOpens => (browserOpen /\ browserCloses' = 0)

\* C16: a run that launched a browser closes it exactly once, after the
\* last page of the run, on the normal path and when the crawl or a page
\* step raised; no page is opened on the browser after it was closed.
C16_BrowserClosedOnce ==
  /\ [](browserCloses <= 1 /\ (browserCloses = 1 => RunOver /\ pagePc = "count"))
  /\ [][ClosesOnce /\ OpensOnOpenBrowser]_vars

\* C16 witness: the crawl raised, the finally block closed the browser and
\* the run has rejected.
C16_Witness ==
  /\ runState = "Failed"
  /\ runError
  /\ browserCloses = 1
  /\ ~browserOpen
  /\ "run rejected" \in console

\* A run with a failed page step has closed its browser after its last page.
ClosedAfterPageFailure ==
  /\ runState = "Completed"
  /\ "Error indexing" \in console
  /\ pageOpens >= 2
  /\ browserCloses = 1

\* ------------------------------------------------------------------------
\* Properties of a request and its tool calls
\* ------------------------------------------------------------------------
ToolTypeOK ==
  /\ \A r \in Requests :
       /\ toolPc[r] \in {"none", "embed", "rpc"}
       /\ toolQuery[r] \in ToolQueries \cup UserTexts
       /\ Len(toolResults[r]) <= MaxToolCalls
       /\ toolPc[r] # "none" => response[r] \in Streams

\* C17: no retrieval of a request lets its failure out: the retrieval made
\* before the generation leaves retrievedText empty and the request goes on
\* to its stream, and no call of the retrieveDocument tool's execute
\* rejects (it answers without documents instead).
C17_RetrievalDegrades ==
  \A r \in Requests :
    /\ searchResult[r].threw => (retrievedText[r] = "" /\ response[r] \in Streams)
    /\ \A k \in 1..Len(toolResults[r]) : ~toolResults[r][k].rejected

\* The retrieval made before the generation failed and was caught, and a
\* call of the tool has answered with documents.
ToolAnswered ==
  /\ searchResult[1].threw
  /\ response[1] = "stream:noContext"
  /\ Len(toolResults[1]) = MaxToolCalls
  /\ \E k \in 1..Len(toolResults[1]) :
       ~toolResults[1][k].rejected /\ toolResults[1][k].text \notin {"", NoDocuments}

\* ------------------------------------------------------------------------
\* Properties of the lead form path
\* ------------------------------------------------------------------------
\* Request r took the branch of route.ts:443.
FormRequest(r) == pc[r] = "lead" \/ leads[r] # "none"

\* A request with a form has started no run, has called neither embedText
\* nor the rpc, has called no tool, and is answered by the insert alone:
\* 500 when it erred, else 200.
FormLeavesPipelineAlone ==
  \A r \in Requests : FormRequest(r) =>
    /\ ~triggered[r]
    /\ searchResult[r] = NotCalled
    /\ rpcReply[r] = NoReply
    /\ retrievedText[r] = ""
    /\ toolResults[r] = <<>> /\ toolPc[r] = "none"
    /\ pc[r] = "lead" => (response[r] = "none" /\ leads[r] = "none")
    /\ pc[r] # "lead" =>
         /\ pc[r] = "done"
         /\ leads[r] = "error" => response[r] = "500"
         /\ leads[r] = "saved" => response[r] = "200"

\* A step of a request on the form path: it goes from the body to the
\* insert and from the insert to its answer, and the flag, the count of
\* runs and the run itself are as they were.
FormStepFrame ==
  \A r \in Requests :
    (pc'[r] # pc[r] /\ "lead" \in {pc[r], pc'[r]}) =>
      /\ (pc[r] = "json" /\ pc'[r] = "lead") \/ (pc[r] = "lead" /\ pc'[r] = "done")
      /\ UNCHANGED <<indexingStarted, runsStarted, browsersLaunched, runState,
                     urls, urlIdx, inserted, prior>>

\* C18: a request whose last user message carries a form bypasses the
\* pipeline: indexingStarted is left as it was, no run is started, nothing
\* is embedded or queried, only the lead row is written; the answer is 500
\* when the insert erred and 200 otherwise.
C18_FormBypasses == []FormLeavesPipelineAlone /\ [][FormStepFrame]_vars

\* C18 witness: of two requests with a form, the first to come, arriving
\* before any run was started, got 500 and the other 200; no run was started.
C18_Witness ==
  /\ leads[1] = "error" /\ response[1] = "500"
  /\ leads[2] = "saved" /\ response[2] = "200"
  /\ ~indexingStarted
  /\ runsStarted = 0

\* ------------------------------------------------------------------------
\* Properties of the rows of documents
\* ------------------------------------------------------------------------
\* The positions in documents of the rows of url u.
RowsWith(u) == {k \in 1..Len(Documents) : Documents[k].url = u}

IndicesOf(u) == {Documents[k].chunk_index : k \in RowsWith(u)}

\* ensurePageIndexed is in its loop of route.ts:379-382.
InChunkLoop == runState = "Indexing" /\ urlIdx <= Len(urls) /\ pagePc \in {"embed", "insert"}

\* The urls the loop of route.ts:393 is through with.
PagesDone == {urls[k] : k \in 1..(urlIdx - 1)}

\* C21: for every url the chunk indices of its rows are exactly 0..m-1, one
\* row for each, and the row of index i holds the i-th chunk of the page,
\* also after an embedding or an insert failed in the middle of a page.
C21_ContiguousIndices ==
  /\ \A u \in Elements(FoundOrder) :
       IndicesOf(u) = 0..(Cardinality(RowsWith(u)) - 1)
  /\ InChunkLoop =>
       \A k \in InsertedFor(CurrentUrl) :
         inserted[k].text = pageChunks[inserted[k].chunk_index + 1]

\* C22: an insert that came back with an error is logged as an error for
\* its url once the url is done with, and no "Indexed:" line is written for
\* a url one of whose inserts failed in the run.
C22_InsertErrorObservable ==
  \A p \in insertFailed :
    /\ p[1] \notin Elements(indexedLog)
    /\ p[1] \in PagesDone => "Error indexing" \in console

\* The chunk indices the run has handed to insert for url u.
Persisted(u) ==
  {inserted[k].chunk_index : k \in InsertedFor(u)}
    \cup {p[2] : p \in {q \in insertFailed : q[1] = u}}

\* In the loop the chunks before chunkIdx, and no other, have been handed
\* to insert; the rows of a url came in ascending order of index; nothing
\* at or after the index of a rejected embedding was handed to insert.
InChunkOrder ==
  /\ InChunkLoop => Persisted(CurrentUrl) = 0..(chunkIdx - 1)
  /\ \A j, k \in 1..Len(inserted) :
       (j < k /\ inserted[j].url = inserted[k].url) =>
         inserted[j].chunk_index < inserted[k].chunk_index
  /\ \A p \in embedFailed : \A n \in Persisted(p[1]) : n < p[2]

\* An insert is issued for the chunk whose embedding has just settled, the
\* next embedding once that insert has settled, and a row is written by
\* the settling of the insert of its index only.
ChunkStepInOrder ==
  /\ (pagePc' = "insert" /\ pagePc # "insert") =>
       pagePc = "embed" /\ chunkIdx' = chunkIdx
  /\ (pagePc' = "embed" /\ pagePc # "embed") =>
       \/ pagePc = "insert" /\ chunkIdx' = chunkIdx + 1
       \/ pagePc = "close" /\ chunkIdx' = 0
  /\ inserted' # inserted =>
       /\ pagePc = "insert"
       /\ inserted' = Append(inserted, [url |-> CurrentUrl, chunk_index |-> chunkIdx,
                                        text |-> pageChunks[chunkIdx + 1]])

\* C23: within a page embedding and insert alternate in ascending order of
\* chunk index and never overlap, and when the embedding of chunk i fails
\* no chunk of index i or more of that page is persisted in the run.
C23_ChunkOrder == []InChunkOrder /\ [][ChunkStepInOrder]_vars

\* C23 witness: the embedding of the second chunk of a page was rejected
\* after the first chunk was persisted, and the run went on to its end.
C23_Witness ==
  /\ RunOver
  /\ \E u \in Elements(urls) :
       /\ <<u, 1>> \in embedFailed
       /\ {inserted[k].chunk_index : k \in InsertedFor(u)} = {0}

\* C24: during a run at most one page context is open at any moment, those
\* of the crawler and those of scrapePage counted together.
C24_OnePageAtATime == openPages + pagesOpen <= 1

\* The urls with a row in documents when the process started.
StoredBefore == {prior[k].url : k \in 1..Len(prior)}

\* C25: a url with a row in documents, however few, is skipped by every
\* later run: it is not extracted, none of its chunks is embedded and no
\* row is added for it, so a partially indexed url is never completed.
C25_ExistenceOnly ==
  \A u \in StoredBefore :
    /\ u \notin Elements(scraped)
    /\ u \notin embedded
    /\ InsertedFor(u) = {}

\* C27: whatever the runs were, documents holds at most one row for a url
\* and a chunk index.
C27_OneRowPerChunk ==
  \A j, k \in 1..Len(Documents) :
    (Documents[j].url = Documents[k].url
       /\ Documents[j].chunk_index = Documents[k].chunk_index) => j = k

\* ------------------------------------------------------------------------
\* Properties of the crawl of a site of one origin
\* ------------------------------------------------------------------------
\* The urls a path of at most n links leads to from the seed, over the
\* links the pages of the site have shown.
RECURSIVE Reach(_)
Reach(n) ==
  IF n <= 0 THEN {Seed}
  ELSE LET near == Reach(n - 1)
       IN near \cup UNION {pageLinks[u] : u \in near \cap DOMAIN pageLinks}

\* The crawl has returned and every page it asked for has loaded.
CrawledAllLoaded == crawlPc = "returned" /\ crawlErrors = {} /\ crawlDepth >= 1

\* C26 as stated: when all pages load, every url within crawlDepth - 1
\* links of the seed is in the list crawlSiteRecursive returns.
C26_Original == CrawledAllLoaded => Reach(crawlDepth - 1) \subseteq Elements(crawlOut)

\* C26 amended: when all pages load, the list returned holds only urls
\* within crawlDepth - 1 links of the seed, each once, they are the urls
\* marked visited, and for a depth of at most 2 they are all the urls within
\* that distance; for a greater depth a url first met at the end of a
\* longer path is not expanded again, and urls within the distance may be
\* missing.
C26_Amended ==
  CrawledAllLoaded =>
    /\ Elements(crawlOut) \subseteq Reach(crawlDepth - 1)
    /\ NoRepeat(crawlOut)
    /\ Elements(crawlOut) = visited
    /\ crawlDepth <= 2 => Reach(crawlDepth - 1) \subseteq Elements(crawlOut)

\* C26 witness: a crawl of depth 2 whose pages all loaded has returned the
\* seed and the two pages it links to.
C26_Witness ==
  /\ CrawledAllLoaded
  /\ crawlDepth = 2
  /\ site = SiteUrls
  /\ Len(crawlOut) = 3
  /\ Elements(crawlOut) = Reach(1)

\* ------------------------------------------------------------------------
\* Properties of the whole run
\* ------------------------------------------------------------------------
\* The crawler marked u visited and its page loaded: goto and evaluate
\* resolved, the page was closed, and no error took the activation of u
\* into its catch block.
CrawlLoaded(u) ==
  /\ u \in visited
  /\ u \in Elements(loaded)
  /\ u \in DOMAIN pageLinks
  /\ u \notin crawlErrors

\* C28: every url handed to ensurePageIndexed is a url of the list the
\* crawl of the same run returned, marked visited and loaded by it; a url
\* whose page failed in the crawl is not in that list and is neither
\* extracted nor persisted in the run.
C28_OnlyCrawledPagesIndexed ==
  /\ runState \in {"Launching", "Crawling"} => attempted = <<>>
  /\ attempted # <<>> => crawlPc = "returned" /\ urls = crawlOut
  /\ \A u \in Elements(attempted) : u \in Elements(urls) /\ CrawlLoaded(u)
  /\ \A u \in crawlErrors :
       /\ crawlPc = "returned" => u \notin Elements(crawlOut)
       /\ u \notin Elements(attempted)
       /\ u \notin Elements(scraped)
       /\ InsertedFor(u) = {}

\* C28 witness: the crawl lost a linked page to a failure and returned the
\* seed alone; the seed was indexed and the run is over.
C28_Witness ==
  /\ RunOver
  /\ crawlErrors # {}
  /\ attempted = <<Seed>>
  /\ InsertedFor(Seed) # {}

====
